---- MODULE Spec2Model ----
(***************************************************************************)
(* Ariane Atlas: the in-memory GraphStore (atlas/storage/graph_store.py),  *)
(* the IngestHandler layered on it (atlas/api/endpoints/ingest.py) and the *)
(* QueryHandler's path query (atlas/api/endpoints/query.py).               *)
(*                                                                         *)
(* Every GraphStore method runs under the store's RLock, so one method     *)
(* call is one atomic step.  An IngestHandler operation makes several      *)
(* store calls and is therefore a process that takes one step per store    *)
(* call; steps of different processes interleave.                          *)
(*                                                                         *)
(* Python's Optional[int] is modelled as a set: {} is None, {n} is n.      *)
(* A defaultdict entry that is missing and one that is empty are the same  *)
(* value here: every reader of the store goes through .get(key, {}).       *)
(***************************************************************************)
EXTENDS Integers, Sequences, FiniteSets, TLC

\* ------------------------------------------------------------- field names
\* The field names of the records of this module, each with its position.
\* TLC keeps the fields of a record in the order in which their names first
\* occur, and a record built in that order is in normal form from the
\* start: every record below lists its fields in the order of this one.
FieldOrder ==
    [contexts |-> 1, states_by_id |-> 2, index_by_key |-> 3,
     prefer_fingerprint_keys |-> 4, allow_id_fallback |-> 5,
     auto_generate_ids |-> 6, max_contexts |-> 7,
     max_states_per_context |-> 8, max_transitions_per_context |-> 9,
     kind |-> 10, found |-> 11, max_depth |-> 12, queue |-> 13,
     visited |-> 14, source |-> 15, op |-> 16, layer |-> 17, prev |-> 18,
     depth |-> 19, hit |-> 20, count |-> 21, first |-> 22, k |-> 23,
     shape |-> 24, payload |-> 25, pc |-> 26, rec |-> 27, context |-> 28,
     before |-> 29, review_status |-> 30, tag |-> 31, workflow_id |-> 32,
     context_id |-> 33, deleted |-> 34, graph |-> 35, arg |-> 36,
     given |-> 37, structural |-> 38, visual |-> 39, obj |-> 40,
     entry |-> 41, by_id |-> 42, by_synonym |-> 43, by_external |-> 44,
     roles |-> 45, patterns |-> 46, intents |-> 47, scalar |-> 48,
     items |-> 49, v |-> 50, secret |-> 51, algorithm |-> 52, signer |-> 53,
     record |-> 54, ok |-> 55, err |-> 56, states |-> 57, workflows |-> 58,
     by_context |-> 59, ctx |-> 60, id |-> 61, app_id |-> 62, src |-> 63,
     tgt |-> 64, source_state_id |-> 65, target_state_id |-> 66,
     discovered_at |-> 67, times_observed |-> 68, records |-> 69, i |-> 70,
     inc |-> 71, supplied |-> 72, existed |-> 73, prior |-> 74,
     moved |-> 75, overwrite |-> 76, member |-> 77, ws |-> 78,
     workflow |-> 79, explicit_entry_state_ids |-> 80,
     mark_terminal_states |-> 81, is_entry |-> 82, is_terminal |-> 83,
     tags |-> 84, registry |-> 85, role |-> 86, label |-> 87,
     transition_ids |-> 88, synonyms |-> 89, external_refs |-> 90,
     chained |-> 91, version |-> 92, platform |-> 93, locale |-> 94,
     fingerprints |-> 95, schema_version |-> 96, created_at |-> 97,
     environment |-> 98, bounding_box |-> 99, path |-> 100, enabled |-> 101,
     visible |-> 102, screenshot_ref |-> 103, interactive_elements |-> 104,
     type |-> 105, element_id |-> 106, raw_input |-> 107, action |-> 108,
     intent_id |-> 109, confidence |-> 110, metadata |-> 111, state |-> 112,
     at |-> 113, tr |-> 114, transition |-> 115, waited |-> 116,
     ids |-> 117, result |-> 118, first_seen_at |-> 119,
     last_seen_at |-> 120, times_seen |-> 121, state_id |-> 122,
     is_new |-> 123, tracked |-> 124, transitions |-> 125, config |-> 126,
     outgoing |-> 127, incoming |-> 128, class |-> 129, x |-> 130,
     data |-> 131, y |-> 132, width |-> 133, height |-> 134, back |-> 135,
     api_keys |-> 136, header_name |-> 137, optional |-> 138, name |-> 139,
     value |-> 140, headers |-> 141, principal |-> 142, status |-> 143,
     handler |-> 144, st |-> 145, owner |-> 146,
     max_states |-> 147, max_transitions |-> 148, skip_on_error |-> 149,
     goal_type |-> 150, goal |-> 151, steps |-> 152, path_view |-> 153,
     plan |-> 154, current_step_index |-> 155, current_state |-> 156,
     step_index |-> 157, step_count |-> 158]

\* ------------------------------------------------------------------ bounds
\* Stored times_observed is kept at or below this by the guards of the
\* incrementing actions.
MaxObserved == 2
\* How many ingests of one transition id SpecIngest follows.
MaxIngests == 3
\* Largest capacity bound a configuration of SpecCap carries.
MaxCap == 1
\* Largest max_depth a path query is made with.
MaxDepthArg == 2
\* Longest list a batch or a bundle member carries.
MaxBatch == 2
\* Longest tag, in characters, a state carries or a query asks for.
MaxTagLen == 2
\* Most observe_state calls a tracker receives.
MaxCalls == 3

\* ------------------------------------------------------------- identifiers
CtxIds   == {"c1", "c2"}
StateIds == {"A", "B", "C", "D"}
TrIds    == {"t1", "t2", "t3"}
Stamps   == {"d0", "d1"}
AppIds   == {"app", "app2"}

None    == {}
Some(n) == {n}
IsNone(o) == o = {}
Val(o)  == CHOOSE n \in o : TRUE

Max(a, b) == IF a >= b THEN a ELSE b

\* --------------------------------------------------------------- variables
VARIABLES
    config,       \* GraphStore._config
    contexts,     \* GraphStore._contexts:    context_id -> Context
    states,       \* GraphStore._states:      context_id -> state_id -> StateRecord
    transitions,  \* GraphStore._transitions: context_id -> transition_id -> TransitionRecord
    outgoing,     \* GraphStore._outgoing:    context_id -> state_id -> set of transition ids
    incoming,     \* GraphStore._incoming:    context_id -> state_id -> set of transition ids
    procs,        \* the IngestHandler calls in progress, one per caller thread
    observed,     \* history: per (context, transition id), how ingest created and re-observed it
    last,         \* the store or handler call that completed last, and its outcome
    query,        \* the path query answered last
    workflows,    \* WorkflowStore._workflows:  workflow_id -> Workflow
    by_context,   \* WorkflowStore._by_context: context_id -> set of workflow ids
    tracker_config,  \* StateTracker._config
    states_by_id,    \* StateTracker._states_by_id: state_id -> TrackedState
    index_by_key,    \* StateTracker._index_by_key: dedup_key -> state_id
    calls,           \* history: the observe_state calls made, with what each returned
    ui_roles,            \* ontology._UI_ROLES:    normalised id -> UIRole
    ui_patterns,         \* ontology._UI_PATTERNS: normalised id -> UIPattern
    intents_by_id,       \* intents._INTENTS_BY_ID:       normalised id -> Intent
    intents_by_synonym,  \* intents._INTENTS_BY_SYNONYM:  normalised name -> Intent
    intents_by_external, \* intents._INTENTS_BY_EXTERNAL: "namespace:ref" -> Intent
    authenticator,       \* AtlasApp.authenticator: None, or the Authenticator's AuthConfig
    lock,                \* GraphStore._lock: the thread that owns the RLock, and how often
    exp_config,          \* ExplorationEngine.config
    engine_transitions,  \* ExplorationEngine.transitions, each with what the driver did
    explore_pc,          \* where explore() stands
    frontier,            \* explore's DFS stack of FrontierItems
    item,                \* explore's FrontierItem being expanded
    actions,             \* the candidates of the for loop still to come
    driver_at,           \* history: the canonical id of the state the driver is in
    pushes,              \* history: how often each state id was pushed on the frontier
    session,             \* the GuidanceSessionState the caller of the GuidanceEngine holds
    advanced             \* history: the advance_session calls made on the session

storeVars == <<contexts, states, transitions, outgoing, incoming>>
\* The state of the components beside the GraphStore and its handlers.
workflowVars == <<workflows, by_context>>
trackerVars == <<tracker_config, states_by_id, index_by_key, calls>>
registryVars == <<ui_roles, ui_patterns, intents_by_id, intents_by_synonym,
                  intents_by_external>>
appVars == <<authenticator>>
lockVars == <<lock>>
exploreVars == <<exp_config, engine_transitions, explore_pc, frontier, item, actions,
                 driver_at, pushes>>
\* The components that no operation of the four above touches.
guidanceVars == <<session, advanced>>
otherVars == <<lockVars, exploreVars, guidanceVars>>
besideVars == <<workflowVars, trackerVars, registryVars, appVars, otherVars>>
\* What the operations of the WorkflowStore leave alone, those of the
\* StateTracker, and those of the registries.
besideWorkflows == <<trackerVars, registryVars, appVars, otherVars>>
besideTracker == <<workflowVars, registryVars, appVars, otherVars>>
besideRegistries == <<workflowVars, trackerVars, appVars, otherVars>>
besideApp == <<workflowVars, trackerVars, registryVars, otherVars>>
besideLock == <<workflowVars, trackerVars, registryVars, appVars, exploreVars, guidanceVars>>
besideExplore == <<workflowVars, registryVars, appVars, lockVars, guidanceVars>>
besideGuidance == <<workflowVars, trackerVars, registryVars, appVars, lockVars, exploreVars>>
vars == <<config, contexts, states, transitions, outgoing, incoming,
          procs, observed, last, query, besideVars>>

\* The store as one value, for the operators that compute a call's effect.
Store == [contexts |-> contexts, states |-> states, transitions |-> transitions,
          outgoing |-> outgoing, incoming |-> incoming]

EmptyMap == << >>

\* threading.RLock() as constructed: no owner, acquired zero times.
Unlocked == [count |-> 0, owner |-> None]

\* StateTrackerConfig()
DefaultTrackerConfig ==
    [prefer_fingerprint_keys |-> <<"structural", "visual", "semantic">>,
     allow_id_fallback |-> TRUE, auto_generate_ids |-> TRUE]

\* ExplorationConfig()
DefaultExplorationConfig ==
    [max_depth |-> Some(10), max_states |-> Some(1000), max_transitions |-> Some(10000),
     skip_on_error |-> TRUE]

\* The components beside the GraphStore as they are constructed, but for
\* the named one, which the specification of that component sets up itself.
BesideEmptyBut(component) ==
    /\ IF component = "WorkflowStore" THEN TRUE
       ELSE workflows = EmptyMap /\ by_context = EmptyMap
    /\ IF component \in {"StateTracker", "ExplorationEngine"} THEN TRUE
       ELSE /\ tracker_config = DefaultTrackerConfig
            /\ states_by_id = EmptyMap
            /\ index_by_key = EmptyMap
            /\ calls = << >>
    /\ IF component = "registries" THEN TRUE
       ELSE /\ ui_roles = EmptyMap
            /\ ui_patterns = EmptyMap
            /\ intents_by_id = EmptyMap
            /\ intents_by_synonym = EmptyMap
            /\ intents_by_external = EmptyMap
    /\ IF component = "AtlasApp" THEN TRUE ELSE authenticator = None
    /\ IF component = "RLock" THEN TRUE ELSE lock = Unlocked
    /\ IF component = "ExplorationEngine" THEN TRUE
       ELSE /\ exp_config = DefaultExplorationConfig
            /\ engine_transitions = << >>
            /\ explore_pc = "start"
            /\ frontier = << >>
            /\ item = None
            /\ actions = << >>
            /\ driver_at = ""
            /\ pushes = EmptyMap
    /\ IF component = "GuidanceEngine" THEN TRUE
       ELSE session = None /\ advanced = 0

BesideEmpty == BesideEmptyBut("none")

EmptyStore ==
    [contexts    |-> EmptyMap,
     states      |-> [c \in CtxIds |-> EmptyMap],
     transitions |-> [c \in CtxIds |-> EmptyMap],
     outgoing    |-> [c \in CtxIds |-> [s \in StateIds |-> {}]],
     incoming    |-> [c \in CtxIds |-> [s \in StateIds |-> {}]]]

\* GraphStoreConfig(): every limit None.
Unlimited ==
    [max_contexts |-> None, max_states_per_context |-> None,
     max_transitions_per_context |-> None]

\* ------------------------------------------------------------------ records
Context(c, app) == [context_id |-> c, app_id |-> app]

StateRecord(c, s, at) == [context_id |-> c, id |-> s, discovered_at |-> at]

TransitionRecord(c, t, src, tgt, at, n) ==
    [context_id |-> c, id |-> t, source_state_id |-> src, target_state_id |-> tgt,
     discovered_at |-> at, times_observed |-> n]

\* Faulty variant of Put: the assignment forgets the other keys.
Put_Alone(map, key, value) == key :> value

\* dict[key] = value
Put(map, key, value) == (key :> value) @@ map

\* ------------------------------------------------------- GraphStore reads
get_context(st, c) ==
    IF c \in DOMAIN st.contexts THEN Some(st.contexts[c]) ELSE None

get_state(st, c, s) ==
    IF s \in DOMAIN st.states[c] THEN Some(st.states[c][s]) ELSE None

get_transition(st, c, t) ==
    IF t \in DOMAIN st.transitions[c] THEN Some(st.transitions[c][t]) ELSE None

\* The lists are returned in dict order; as values they are the sets of records.
list_contexts(st) == {st.contexts[c] : c \in DOMAIN st.contexts}

list_states(st, c) == {st.states[c][s] : s \in DOMAIN st.states[c]}

list_transitions(st, c) == {st.transitions[c][t] : t \in DOMAIN st.transitions[c]}

get_outgoing_transitions(st, c, s) ==
    {st.transitions[c][t] : t \in st.outgoing[c][s] \cap DOMAIN st.transitions[c]}

get_incoming_transitions(st, c, s) ==
    {st.transitions[c][t] : t \in st.incoming[c][s] \cap DOMAIN st.transitions[c]}

\* Everything a reader can obtain from the store through its public methods.
ReaderView(st) ==
    [contexts    |-> list_contexts(st),
     states      |-> [c \in CtxIds |-> list_states(st, c)],
     transitions |-> [c \in CtxIds |-> list_transitions(st, c)],
     outgoing    |-> [c \in CtxIds |-> [s \in StateIds |-> get_outgoing_transitions(st, c, s)]],
     incoming    |-> [c \in CtxIds |-> [s \in StateIds |-> get_incoming_transitions(st, c, s)]]]

\* ------------------------------------------------------ GraphStore writes
\* A write returns the outcome and the store after it:
\* err is "" on success and the exception's class otherwise.
Done(st)       == [ok |-> TRUE, err |-> "", st |-> st]
Raise(kind, st) == [ok |-> FALSE, err |-> kind, st |-> st]

\* Faulty variant of AtCapacity: the test is off by one and lets one entry too many in.
AtCapacity_OffByOne(limit, size) == ~IsNone(limit) /\ size > Val(limit)

\* The capacity test shared by the three upserts: a limit is configured
\* and the collection already holds that many entries.
AtCapacity(limit, size) == ~IsNone(limit) /\ size >= Val(limit)

upsert_context(st, cfg, ctx) ==
    IF /\ ctx.context_id \notin DOMAIN st.contexts
       /\ AtCapacity(cfg.max_contexts, Cardinality(DOMAIN st.contexts))
    THEN Raise("RuntimeError", st)
    ELSE Done([st EXCEPT !.contexts = Put(@, ctx.context_id, ctx)])

\* Faulty variant of upsert_state: replacing a state also empties its
\* outgoing index entry.
upsert_state_ClearsIndex(st, cfg, record) ==
    Done([st EXCEPT !.states[record.context_id] = Put(@, record.id, record),
                    !.outgoing[record.context_id][record.id] = {}])

upsert_state(st, cfg, record) ==
    LET c == record.context_id
    IN  IF /\ record.id \notin DOMAIN st.states[c]
           /\ AtCapacity(cfg.max_states_per_context, Cardinality(DOMAIN st.states[c]))
        THEN Raise("RuntimeError", st)
        ELSE Done([st EXCEPT !.states[c] = Put(@, record.id, record)])

\* Faulty variant of DiscardStale: the old index entry is never removed.
DiscardStale_Never(index, oldKey, newKey, t) == index

\* outgoing[ctx][old_src].discard(tr_id) when the source changed (and the
\* same for incoming with the targets).
DiscardStale(index, oldKey, newKey, t) ==
    IF oldKey # newKey THEN [index EXCEPT ![oldKey] = @ \ {t}] ELSE index

\* Faulty variant of MergeTimesObserved: the caller's counter is incremented
\* instead of the stored one.
MergeTimesObserved_FromRecord(existing, record, increment_observed) ==
    IF increment_observed THEN record.times_observed + 1 ELSE record.times_observed

\* The times_observed an upsert over an existing record stores.
MergeTimesObserved(existing, record, increment_observed) ==
    IF increment_observed THEN existing.times_observed + 1 ELSE record.times_observed

\* The new-id branch of upsert_transition: the capacity test.
TransitionCapacityExceeded(cfg, ctx_transitions) ==
    AtCapacity(cfg.max_transitions_per_context, Cardinality(DOMAIN ctx_transitions))

upsert_transition(st, cfg, record, increment_observed) ==
    LET c   == record.context_id
        t   == record.id
        src == record.source_state_id
        tgt == record.target_state_id
        ctx_transitions == st.transitions[c]
        exists == t \in DOMAIN ctx_transitions
        existing == ctx_transitions[t]
        out1 == IF exists
                THEN DiscardStale(st.outgoing[c], existing.source_state_id, src, t)
                ELSE st.outgoing[c]
        in1  == IF exists
                THEN DiscardStale(st.incoming[c], existing.target_state_id, tgt, t)
                ELSE st.incoming[c]
        stored == IF exists
                  THEN [record EXCEPT !.times_observed =
                            MergeTimesObserved(existing, record, increment_observed)]
                  ELSE record
    IN  IF ~exists /\ TransitionCapacityExceeded(cfg, ctx_transitions)
        THEN Raise("RuntimeError", st)
        ELSE Done([st EXCEPT
                 !.transitions[c] = Put(@, t, stored),
                 !.outgoing[c] = [out1 EXCEPT ![src] = @ \cup {t}],
                 !.incoming[c] = [in1 EXCEPT ![tgt] = @ \cup {t}]])

StoreIs(st) ==
    /\ contexts = st.contexts
    /\ states = st.states
    /\ transitions = st.transitions
    /\ outgoing = st.outgoing
    /\ incoming = st.incoming

SetStore(st) ==
    /\ contexts' = st.contexts
    /\ states' = st.states
    /\ transitions' = st.transitions
    /\ outgoing' = st.outgoing
    /\ incoming' = st.incoming

\* ------------------------------------------------------- shortest_path
\* A path query's answer: None (found = FALSE) or a list of TransitionRecords.
NoPath == [found |-> FALSE, path |-> << >>]
Path(records) == [found |-> TRUE, path |-> records]

Reverse(seq) == [i \in 1..Len(seq) |-> seq[Len(seq) + 1 - i]]

\* Faulty variant of PathFromTarget: path_transitions.reverse() is left out.
PathFromTarget_NotReversed(backwards) == backwards

\* The end of _reconstruct_path: the records were collected from the target
\* back to the source and are returned source first.
PathFromTarget(backwards) == Reverse(backwards)

\* _reconstruct_path: prev maps a visited state to (prev_state, tr_id), and
\* the source to (None, None); the walk stops at the first state whose
\* entry is missing or holds a None.
RECURSIVE WalkBack(_, _, _, _)
WalkBack(ctx_transitions, prev, current, collected) ==
    IF current \notin DOMAIN prev \/ IsNone(prev[current].state) \/ IsNone(prev[current].tr)
    THEN collected
    ELSE LET tr_id == Val(prev[current].tr)
         IN  WalkBack(ctx_transitions, prev, Val(prev[current].state),
                      IF tr_id \in DOMAIN ctx_transitions
                      THEN Append(collected, ctx_transitions[tr_id])
                      ELSE collected)

reconstruct_path(st, c, prev, target) ==
    PathFromTarget(WalkBack(st.transitions[c], prev, target, << >>))

\* Faulty variant of SkipExpansion: the depth test is off by one.
SkipExpansion_OffByOne(max_depth, current_depth) ==
    ~IsNone(max_depth) /\ current_depth > Val(max_depth)

\* "if max_depth is not None and current_depth >= max_depth: continue"
SkipExpansion(max_depth, current_depth) ==
    ~IsNone(max_depth) /\ current_depth >= Val(max_depth)

\* The search state of the BFS loop.
Search(queue, visited, prev, depth) ==
    [queue |-> queue, visited |-> visited, prev |-> prev, depth |-> depth, hit |-> FALSE]

\* The for loop over outgoing[current]: trs are the ids still to visit, in
\* the order the set yields them.  It stops with hit = TRUE when it reaches
\* the target.
RECURSIVE Expand(_, _, _, _, _)
Expand(ctx_transitions, target, current, trs, b) ==
    IF trs = << >> THEN b
    ELSE LET tr_id == Head(trs)
             nxt == ctx_transitions[tr_id].target_state_id
         IN  IF tr_id \notin DOMAIN ctx_transitions
             THEN Expand(ctx_transitions, target, current, Tail(trs), b)
             ELSE IF nxt \in b.visited
             THEN Expand(ctx_transitions, target, current, Tail(trs), b)
             ELSE LET b1 == [b EXCEPT
                               !.visited = @ \cup {nxt},
                               !.prev = Put(@, nxt, [state |-> Some(current), tr |-> Some(tr_id)]),
                               !.depth = Put(@, nxt, b.depth[current] + 1)]
                  IN  IF nxt = target
                      THEN [b1 EXCEPT !.hit = TRUE]
                      ELSE Expand(ctx_transitions, target, current, Tail(trs),
                                  [b1 EXCEPT !.queue = Append(@, nxt)])

\* The while loop.  order lists the transition ids in the order iteration
\* over a set of them yields them (unspecified for a Python set).
RECURSIVE Bfs(_, _, _, _, _, _)
Bfs(st, c, target, max_depth, order, b) ==
    IF b.queue = << >> THEN NoPath
    ELSE LET current == Head(b.queue)
             rest == [b EXCEPT !.queue = Tail(@)]
         IN  IF SkipExpansion(max_depth, b.depth[current])
             THEN Bfs(st, c, target, max_depth, order, rest)
             ELSE LET trs == SelectSeq(order, LAMBDA t : t \in st.outgoing[c][current])
                      b1 == Expand(st.transitions[c], target, current, trs, rest)
                  IN  IF b1.hit
                      THEN Path(reconstruct_path(st, c, b1.prev, target))
                      ELSE Bfs(st, c, target, max_depth, order, b1)

\* The body of shortest_path under the lock.
Search_from(st, c, source, target, max_depth, order) ==
    IF DOMAIN st.transitions[c] = {}
    THEN NoPath
    ELSE Bfs(st, c, target, max_depth, order,
             Search(<<source>>, {source}, source :> [state |-> None, tr |-> None],
                    source :> 0))

\* Faulty variant of shortest_path: without the source == target shortcut.
shortest_path_NoShortcut(st, c, source, target, max_depth, order) ==
    Search_from(st, c, source, target, max_depth, order)

\* GraphStore.shortest_path
shortest_path(st, c, source, target, max_depth, order) ==
    IF source = target
    THEN Path(<< >>)
    ELSE Search_from(st, c, source, target, max_depth, order)

\* QueryHandler._transition_record_to_dict: the record's own fields, and
\* the transition's fields nested under "transition".
transition_record_to_dict(record) ==
    [context_id |-> record.context_id,
     discovered_at |-> record.discovered_at,
     times_observed |-> record.times_observed,
     transition |-> [id |-> record.id,
                     source_state_id |-> record.source_state_id,
                     target_state_id |-> record.target_state_id]]

\* The payload of a store answer: None stays null, and a path becomes the
\* list of its records' dicts.
PathPayload(answer) ==
    IF answer.found
    THEN Path([i \in 1..Len(answer.path) |-> transition_record_to_dict(answer.path[i])])
    ELSE NoPath

\* QueryHandler.shortest_path: _require_context, _require_state twice, then
\* the store's answer as a payload.
Query_shortest_path(st, c, source, target, max_depth, order) ==
    IF IsNone(get_context(st, c)) THEN [err |-> "QueryError"] @@ NoPath
    ELSE IF IsNone(get_state(st, c, source)) THEN [err |-> "QueryError"] @@ NoPath
    ELSE IF IsNone(get_state(st, c, target)) THEN [err |-> "QueryError"] @@ NoPath
    ELSE [err |-> ""] @@ PathPayload(shortest_path(st, c, source, target, max_depth, order))

\* ------------------------------------------------------------ call records
\* What is remembered of the call that completed last: its arguments, what
\* was stored under its id before it (existed, prior = the times_observed
\* stored before, 0 when none), whether it replaced a transition by one with
\* another source or target (moved), and its outcome.
NoCall ==
    [op |-> "none", ok |-> TRUE, err |-> "", ctx |-> "", id |-> "", src |-> "", tgt |-> "",
     inc |-> FALSE, supplied |-> 0, existed |-> FALSE, prior |-> 0, moved |-> FALSE]

ContextCall(op, st, ctx, r) ==
    [NoCall EXCEPT !.op = op, !.ok = r.ok, !.err = r.err, !.ctx = ctx.context_id,
                   !.existed = ctx.context_id \in DOMAIN st.contexts]

StateCall(op, st, record, r) ==
    [NoCall EXCEPT !.op = op, !.ok = r.ok, !.err = r.err, !.ctx = record.context_id,
                   !.id = record.id,
                   !.existed = record.id \in DOMAIN st.states[record.context_id]]

TransitionCall(op, st, record, inc, r) ==
    LET c == record.context_id
        t == record.id
        existed == t \in DOMAIN st.transitions[c]
    IN  [op |-> op, ok |-> r.ok, err |-> r.err, ctx |-> c, id |-> t,
         src |-> record.source_state_id, tgt |-> record.target_state_id,
         inc |-> inc, supplied |-> record.times_observed, existed |-> existed,
         prior |-> IF existed THEN st.transitions[c][t].times_observed ELSE 0,
         moved |-> /\ existed
                   /\ \/ st.transitions[c][t].source_state_id # record.source_state_id
                      \/ st.transitions[c][t].target_state_id # record.target_state_id]

NoQuery ==
    [found |-> FALSE, max_depth |-> None, layer |-> "none", err |-> "", ctx |-> "",
     src |-> "", tgt |-> "", path |-> << >>]

NoObserved == [c \in CtxIds |-> [t \in TrIds |-> [count |-> 0, first |-> 0]]]

\* --------------------------------------------------- direct store callers
\* (Each call's arguments, the store it finds and its result are bound once,
\* as the one element of a set.)
\* A caller of GraphStore.upsert_context
UpsertContext(c, app) ==
    \E ctx \in {Context(c, app)}, st \in {Store} :
    \E r \in {upsert_context(st, config, ctx)} :
        /\ SetStore(r.st)
        /\ last' = ContextCall("upsert_context", st, ctx, r)
        /\ query' = NoQuery
        /\ UNCHANGED <<config, besideVars, procs, observed>>

\* A caller of GraphStore.upsert_state
UpsertState(c, s, at) ==
    \E record \in {StateRecord(c, s, at)}, st \in {Store} :
    \E r \in {upsert_state(st, config, record)} :
        /\ SetStore(r.st)
        /\ last' = StateCall("upsert_state", st, record, r)
        /\ query' = NoQuery
        /\ UNCHANGED <<config, besideVars, procs, observed>>

\* A caller of GraphStore.upsert_transition.  The guard keeps the counter
\* within MaxObserved.
UpsertTransition(c, t, src, tgt, at, n, inc) ==
    \E record \in {TransitionRecord(c, t, src, tgt, at, n)}, st \in {Store} :
    \E r \in {upsert_transition(st, config, record, inc)} :
        /\ (inc /\ t \in DOMAIN transitions[c]) =>
                transitions[c][t].times_observed < MaxObserved
        /\ SetStore(r.st)
        /\ last' = TransitionCall("upsert_transition", st, record, inc, r)
        /\ query' = NoQuery
        /\ UNCHANGED <<config, besideVars, procs, observed>>

\* ------------------------------------------------------------------- Spec
\* Callers of the GraphStore's three upserts, in any order, with no limit
\* configured.  Context c1 carries the transitions t1 and t2 between A and
\* B; context c2 is the other context, with one transition, there to show
\* what a call on one context does to another; its callers also supply a
\* times_observed of 0, which the store accepts like any other.
SpecTrIds(c)  == IF c = "c1" THEN {"t1", "t2"} ELSE {"t1"}
SpecEnds(c)   == IF c = "c1" THEN {"A", "B"} \X {"A", "B"} ELSE {<<"A", "B">>}
SpecTimes(c)  == IF c = "c1" THEN {1, 2} ELSE {0, 1}

Init ==
    /\ config = Unlimited
    /\ StoreIs(EmptyStore)
    /\ procs = << >>
    /\ observed = NoObserved
    /\ last = NoCall
    /\ query = NoQuery
    /\ BesideEmpty

Next ==
    \/ UpsertContext("c1", "app")
    \/ UpsertState("c1", "A", "d0")
    \/ \E c \in CtxIds : \E t \in SpecTrIds(c), e \in SpecEnds(c), n \in SpecTimes(c),
                             inc \in BOOLEAN :
            UpsertTransition(c, t, e[1], e[2], "d0", n, inc)

Spec == Init /\ [][Next]_vars

\* ------------------------------------------------------------------ C1
\* C1: in every reachable state, for every context c, state id s and
\* transition id t, t is in outgoing[c][s] exactly when t is stored in
\* transitions[c] with source s, and t is in incoming[c][s] exactly when t
\* is stored in transitions[c] with target s.
IndexConsistent ==
    \A c \in CtxIds, s \in StateIds, t \in TrIds :
        /\ t \in outgoing[c][s] <=>
              (t \in DOMAIN transitions[c] /\ transitions[c][t].source_state_id = s)
        /\ t \in incoming[c][s] <=>
              (t \in DOMAIN transitions[c] /\ transitions[c][t].target_state_id = s)

\* A re-upsert has just moved t2 of c1 onto B -> B while t1 still leaves A:
\* outgoing[c1][A] must have lost t2 and kept t1.
IndexConsistent_Witness ==
    /\ last.op = "upsert_transition" /\ last.ok /\ last.moved
    /\ DOMAIN transitions["c1"] = {"t1", "t2"}
    /\ transitions["c1"]["t1"].source_state_id = "A"
    /\ transitions["c1"]["t2"].source_state_id = "B"
    /\ transitions["c1"]["t2"].target_state_id = "B"
    /\ outgoing["c1"]["A"] = {"t1"}

\* ------------------------------------------------------------------ C4
\* The record upsert_transition was last called with, carrying times_observed n.
LastRecord(n) ==
    TransitionRecord(last.ctx, last.id, last.src, last.tgt, "d0", n)

\* C4 as stated: after upsert_transition(t, increment_observed),
\* get_transition(t.context_id, t.id) returns t's payload with
\* times_observed = max(prior+1, 1) when incrementing, prior being the
\* counter stored before the call (so 1 for an id not stored before), and
\* with the supplied value when not incrementing.
TimesObservedMaxPrior ==
    last.op = "upsert_transition" =>
        get_transition(Store, last.ctx, last.id) =
            Some(LastRecord(IF last.inc THEN Max(last.prior + 1, 1) ELSE last.supplied))

\* C4 amended: after an upsert_transition that returns, get_transition
\* returns t's payload with times_observed = prior + 1 when incrementing
\* over an id that was stored before, and with the supplied value when the
\* id was not stored before or when not incrementing.
TimesObservedMerged ==
    (last.op = "upsert_transition" /\ last.ok) =>
        get_transition(Store, last.ctx, last.id) =
            Some(LastRecord(IF last.inc /\ last.existed
                            THEN last.prior + 1 ELSE last.supplied))

\* An incrementing upsert over a stored id whose caller supplied another
\* counter than the one that results.
TimesObservedMerged_Witness ==
    /\ last.op = "upsert_transition" /\ last.ok /\ last.inc /\ last.existed
    /\ last.prior = 1 /\ last.supplied = 1

\* ---------------------------------------------------------------- SpecCap
\* The store of a GraphStoreConfig with limits: each of the three limits is
\* None or a number up to MaxCap, fixed at construction.
Caps == {None} \cup {Some(k) : k \in 0..MaxCap}

InitCap ==
    /\ config \in [max_contexts : Caps, max_states_per_context : Caps,
                   max_transitions_per_context : Caps]
    /\ StoreIs(EmptyStore)
    /\ procs = << >>
    /\ observed = NoObserved
    /\ last = NoCall
    /\ query = NoQuery
    /\ BesideEmpty

NextCap ==
    \/ \E c \in CtxIds : UpsertContext(c, "app")
    \/ \E s \in {"A", "B"} : UpsertState("c1", s, "d0")
    \/ \E t \in {"t1", "t2"}, inc \in BOOLEAN : UpsertTransition("c1", t, "A", "B", "d0", 1, inc)

SpecCap == InitCap /\ [][NextCap]_vars

\* ------------------------------------------------------------------ C10
Within(limit, size) == IF IsNone(limit) THEN TRUE ELSE size <= Val(limit)

\* The number of contexts, of states per context and of transitions per
\* context is within its configured limit.
WithinCapacity ==
    /\ Within(config.max_contexts, Cardinality(DOMAIN contexts))
    /\ \A c \in CtxIds :
          /\ Within(config.max_states_per_context, Cardinality(DOMAIN states[c]))
          /\ Within(config.max_transitions_per_context, Cardinality(DOMAIN transitions[c]))

\* The limit that applies to the call that completed last, and the size of
\* the collection it wrote to.
LastLimit ==
    CASE last.op = "upsert_context" -> config.max_contexts
      [] last.op = "upsert_state" -> config.max_states_per_context
      [] last.op = "upsert_transition" -> config.max_transitions_per_context
      [] OTHER -> None

LastSize ==
    CASE last.op = "upsert_context" -> Cardinality(DOMAIN contexts)
      [] last.op = "upsert_state" -> Cardinality(DOMAIN states[last.ctx])
      [] last.op = "upsert_transition" -> Cardinality(DOMAIN transitions[last.ctx])
      [] OTHER -> 0

\* The size before that call: only the successful upsert of a new id adds an entry.
LastSizeBefore == IF last.ok /\ ~last.existed THEN LastSize - 1 ELSE LastSize

\* An upsert fails exactly when its id is new and the collection is at its
\* limit; an upsert of a stored id succeeds whatever the size.
FailsExactlyAtCapacity ==
    last.op # "none" =>
        /\ ~last.ok <=>
              (~last.existed /\ ~IsNone(LastLimit) /\ LastSizeBefore >= Val(LastLimit))
        /\ ~last.ok => last.err = "RuntimeError"

\* C10: with limits configured, the number of contexts, of states per
\* context and of transitions per context never exceeds its limit; an
\* upsert of a new id at capacity fails and changes nothing a reader can
\* observe; an upsert that replaces a stored id at capacity succeeds.
CapacityRespected ==
    /\ [](WithinCapacity /\ FailsExactlyAtCapacity)
    /\ [][~last'.ok => ReaderView(Store)' = ReaderView(Store)]_vars

\* Both cases at once: the context holds as many transitions as the limit
\* allows, the upsert of a second id has just failed, and the one stored
\* before was re-upserted at capacity (its counter is 2).
CapacityRespected_Witness ==
    /\ config.max_transitions_per_context = Some(1)
    /\ last.op = "upsert_transition" /\ ~last.ok /\ ~last.existed
    /\ \E t \in DOMAIN transitions["c1"] : transitions["c1"][t].times_observed = 2

\* ---------------------------------------------------------- IngestHandler
\* A JSON payload is a record with a shape: "object" when it is a dict that
\* carries the required keys, "not_object" when it is no dict, "incomplete"
\* when a required key is missing.  Optional keys are sets ({} = absent).
ContextPayload(shape, c, app) == [shape |-> shape, context_id |-> c, app_id |-> app]

StatePayload(shape, c, s, at) ==
    [shape |-> shape, context_id |-> c, id |-> s, discovered_at |-> at]

TransitionPayload(shape, c, t, src, tgt, at, n) ==
    [shape |-> shape, context_id |-> c, id |-> t, source_state_id |-> src,
     target_state_id |-> tgt, discovered_at |-> at, times_observed |-> n]

\* data.get(key, default)
GetOr(opt, default) == IF IsNone(opt) THEN default ELSE Val(opt)

\* Context.from_dict
Context_from_dict(data) == Context(data.context_id, data.app_id)

\* StateRecord.from_dict; now is the clock's reading, used when the payload
\* carries no discovered_at.
StateRecord_from_dict(data, now) ==
    StateRecord(data.context_id, data.id, GetOr(data.discovered_at, now))

\* TransitionRecord.from_dict: times_observed = int(data.get("times_observed", 1))
TransitionRecord_from_dict(data, now) ==
    TransitionRecord(data.context_id, data.id, data.source_state_id, data.target_state_id,
                     GetOr(data.discovered_at, now), GetOr(data.times_observed, 1))

\* The isinstance test and the try/except around from_dict: anything but a
\* well-formed object is an IngestError.
Decodes(payload) == payload.shape = "object"

Procs == {"p1", "p2"}
Idle == [pc |-> "idle", rec |-> << >>]
At(p, pc) == procs[p].pc = pc
Goto(p, pc, rec) == procs' = [procs EXCEPT ![p] = [pc |-> pc, rec |-> rec]]
Failed(kind) == [ok |-> FALSE, err |-> kind]
Returned == [ok |-> TRUE, err |-> ""]

\* Faulty variant of StateMissing: the endpoint is not looked up at all.
StateMissing_Unchecked(st, c, s) == FALSE

\* The endpoint test of ingest_transition_record: the state must be stored
\* in the record's context.
StateMissing(st, c, s) == IsNone(get_state(st, c, s))

\* Faulty variant of RequireEndpoint: the record is written first and validated after.
RequireEndpoint_AfterWrite(st, record, s) ==
    IF StateMissing(st, record.context_id, s)
    THEN Raise("IngestError", upsert_transition(st, Unlimited, record, TRUE).st)
    ELSE Done(st)

\* ingest_transition_record's test of one endpoint s of the record: an
\* IngestError when it is missing, and the store as it was either way.
RequireEndpoint(st, record, s) ==
    IF StateMissing(st, record.context_id, s) THEN Raise("IngestError", st) ELSE Done(st)

\* Faulty variant of ContextRefused: an existing context is always replaced.
ContextRefused_Never(existing, overwrite) == FALSE

\* ingest_context's test on what store.get_context returned:
\* "existing is not None and not overwrite".
ContextRefused(existing, overwrite) == ~IsNone(existing) /\ ~overwrite

\* Faulty variant of RequireContext: the context is not looked up.
RequireContext_Unchecked(st, c) == Done(st)

\* The context test of ingest_state_record and ingest_transition_record.
RequireContext(st, c) ==
    IF IsNone(get_context(st, c)) THEN Raise("IngestError", st) ELSE Done(st)

\* The history of an ingested transition id: how many ingests stored it and
\* the times_observed its first ingest stored.
Observe(obs, st, record, stored) ==
    LET c == record.context_id
        t == record.id
    IN  IF t \in DOMAIN st.transitions[c]
        THEN [obs EXCEPT ![c][t].count = @ + 1]
        ELSE [obs EXCEPT ![c][t] = [count |-> 1, first |-> stored.times_observed]]

\* The calls in flight that will upsert transition t of c.
InFlight(c, t) ==
    Cardinality({p \in Procs : /\ procs[p].pc \in {"t_source", "t_target", "t_upsert"}
                               /\ procs[p].rec.context_id = c
                               /\ procs[p].rec.id = t})

\* ---- ingest_context(payload, overwrite)
\* Decoding, then store.get_context and the overwrite test.
IngestContext_Check(p, payload, overwrite) ==
    /\ At(p, "idle")
    /\ IF ~Decodes(payload)
       THEN /\ last' = ContextCall("ingest_context", Store, payload, Failed("IngestError"))
            /\ UNCHANGED procs
       ELSE LET ctx == Context_from_dict(payload)
            IN  IF ContextRefused(get_context(Store, ctx.context_id), overwrite)
                THEN /\ last' = ContextCall("ingest_context", Store, ctx, Failed("IngestError"))
                     /\ UNCHANGED procs
                ELSE /\ Goto(p, "c_upsert", ctx)
                     /\ UNCHANGED last
    /\ UNCHANGED <<config, besideVars, storeVars, observed, query>>

\* store.upsert_context(ctx)
IngestContext_Upsert(p) ==
    /\ At(p, "c_upsert")
    /\ \E st \in {Store} : \E r \in {upsert_context(st, config, procs[p].rec)} :
          /\ SetStore(r.st)
          /\ last' = ContextCall("ingest_context", st, procs[p].rec, r)
    /\ Goto(p, "idle", << >>)
    /\ UNCHANGED <<config, besideVars, observed, query>>

\* ---- ingest_state_record(payload)
\* Decoding, then store.get_context.
IngestState_Check(p, payload, now) ==
    /\ At(p, "idle")
    /\ IF ~Decodes(payload)
       THEN /\ last' = StateCall("ingest_state_record", Store, payload, Failed("IngestError"))
            /\ UNCHANGED procs
       ELSE LET record == StateRecord_from_dict(payload, now)
                r == RequireContext(Store, record.context_id)
            IN  IF ~r.ok
                THEN /\ last' = StateCall("ingest_state_record", Store, record, r)
                     /\ UNCHANGED procs
                ELSE /\ Goto(p, "s_upsert", record)
                     /\ UNCHANGED last
    /\ UNCHANGED <<config, besideVars, storeVars, observed, query>>

\* store.upsert_state(record)
IngestState_Upsert(p) ==
    /\ At(p, "s_upsert")
    /\ \E st \in {Store} : \E r \in {upsert_state(st, config, procs[p].rec)} :
          /\ SetStore(r.st)
          /\ last' = StateCall("ingest_state_record", st, procs[p].rec, r)
    /\ Goto(p, "idle", << >>)
    /\ UNCHANGED <<config, besideVars, observed, query>>

\* ---- ingest_transition_record(payload)
\* Decoding, then store.get_context.  The guard keeps the number of ingests
\* of one id within MaxIngests.
IngestTransition_Check(p, payload, now) ==
    /\ At(p, "idle")
    /\ IF ~Decodes(payload)
       THEN /\ last' = TransitionCall("ingest_transition_record", Store, payload, TRUE,
                                      Failed("IngestError"))
            /\ UNCHANGED procs
       ELSE LET record == TransitionRecord_from_dict(payload, now)
                c == record.context_id
                t == record.id
                r == RequireContext(Store, c)
            IN  /\ observed[c][t].count + InFlight(c, t) < MaxIngests
                /\ IF ~r.ok
                   THEN /\ last' = TransitionCall("ingest_transition_record", Store, record,
                                                  TRUE, r)
                        /\ UNCHANGED procs
                   ELSE /\ Goto(p, "t_source", record)
                        /\ UNCHANGED last
    /\ UNCHANGED <<config, besideVars, storeVars, observed, query>>

\* store.get_state(record.context_id, record.source_state_id)
IngestTransition_Source(p) ==
    /\ At(p, "t_source")
    /\ \E st \in {Store}, record \in {procs[p].rec} :
       \E r \in {RequireEndpoint(st, record, record.source_state_id)} :
          /\ SetStore(r.st)
          /\ IF ~r.ok
             THEN /\ last' = TransitionCall("ingest_transition_record", st, record, TRUE, r)
                  /\ Goto(p, "idle", << >>)
             ELSE /\ Goto(p, "t_target", record)
                  /\ UNCHANGED last
    /\ UNCHANGED <<config, besideVars, observed, query>>

\* store.get_state(record.context_id, record.target_state_id)
IngestTransition_Target(p) ==
    /\ At(p, "t_target")
    /\ \E st \in {Store}, record \in {procs[p].rec} :
       \E r \in {RequireEndpoint(st, record, record.target_state_id)} :
          /\ SetStore(r.st)
          /\ IF ~r.ok
             THEN /\ last' = TransitionCall("ingest_transition_record", st, record, TRUE, r)
                  /\ Goto(p, "idle", << >>)
             ELSE /\ Goto(p, "t_upsert", record)
                  /\ UNCHANGED last
    /\ UNCHANGED <<config, besideVars, observed, query>>

\* store.upsert_transition(record, increment_observed=True)
IngestTransition_Upsert(p) ==
    /\ At(p, "t_upsert")
    /\ \E st \in {Store}, record \in {procs[p].rec} :
       \E r \in {upsert_transition(st, config, record, TRUE)} :
          /\ SetStore(r.st)
          /\ last' = TransitionCall("ingest_transition_record", st, record, TRUE, r)
          /\ observed' = IF r.ok
                         THEN Observe(observed, st, record,
                                      r.st.transitions[record.context_id][record.id])
                         ELSE observed
    /\ Goto(p, "idle", << >>)
    /\ UNCHANGED <<config, besideVars, query>>

\* ------------------------------------------------------------- SpecIngest
\* Two caller threads of one IngestHandler, no limit configured.  A batch
\* (ingest_state_records, ingest_transition_records) is the single-record
\* operation applied to each element in turn until one fails, and
\* ingest_bundle is ingest_context(overwrite=True) followed by the two
\* batches: what they do to the store is what a thread does here by
\* calling the single-record operations one after another.
\* State C is never ingested: a transition to it fails on its target.
IngestEnds  == {<<"A", "B">>, <<"B", "A">>, <<"A", "C">>}
IngestTimes == {None, Some(0)}
IngestShapes == {"object", "not_object"}

InitIngest ==
    /\ config = Unlimited
    /\ StoreIs(EmptyStore)
    /\ procs = [p \in Procs |-> Idle]
    /\ observed = NoObserved
    /\ last = NoCall
    /\ query = NoQuery
    /\ BesideEmpty

\* One step of caller thread p, its payloads drawn from the given ids.
IngestStep(p, ctxs, sts, trs, ends, times) ==
    \/ \E shape \in IngestShapes, c \in ctxs, overwrite \in BOOLEAN :
          IngestContext_Check(p, ContextPayload(shape, c, "app"), overwrite)
    \/ IngestContext_Upsert(p)
    \/ \E shape \in IngestShapes, s \in sts :
          IngestState_Check(p, StatePayload(shape, "c1", s, Some("d0")), "d1")
    \/ IngestState_Upsert(p)
    \/ \E shape \in IngestShapes, t \in trs, e \in ends, n \in times :
          IngestTransition_Check(
              p, TransitionPayload(shape, "c1", t, e[1], e[2], Some("d0"), n), "d1")
    \/ IngestTransition_Source(p)
    \/ IngestTransition_Target(p)
    \/ IngestTransition_Upsert(p)

NextIngest ==
    \E p \in Procs : IngestStep(p, {"c1"}, {"A", "B"}, {"t1"}, IngestEnds, IngestTimes)

SpecIngest == InitIngest /\ [][NextIngest]_vars

\* ------------------------------------------------------------------ C2
\* C2: every TransitionRecord stored in a context c has both its
\* source_state_id and its target_state_id stored as StateRecords in c.
ReferentialIntegrity ==
    \A c \in CtxIds : \A t \in DOMAIN transitions[c] :
        /\ transitions[c][t].source_state_id \in DOMAIN states[c]
        /\ transitions[c][t].target_state_id \in DOMAIN states[c]

\* A transition ingest has just stored its record while the other thread
\* is in the middle of an ingest of its own.
ReferentialIntegrity_Witness ==
    /\ last.op = "ingest_transition_record" /\ last.ok
    /\ "t1" \in DOMAIN transitions["c1"]
    /\ \E p \in Procs : ~At(p, "idle")

\* ------------------------------------------------------------------ C3
\* C3: a step in which ingest_transition_record fails (context, source or
\* target missing) leaves contexts, states, transitions, outgoing and
\* incoming as they were.
FailedIngestLeavesStore ==
    [][(last'.op = "ingest_transition_record" /\ ~last'.ok) => UNCHANGED storeVars]_vars

\* The ingest of a transition to the missing state C has just failed while
\* t1 was stored: t1 was neither replaced nor counted again.
FailedIngestLeavesStore_Witness ==
    /\ last.op = "ingest_transition_record" /\ ~last.ok /\ last.err = "IngestError"
    /\ last.tgt = "C" /\ last.existed
    /\ "t1" \in DOMAIN transitions["c1"]
    /\ transitions["c1"]["t1"].times_observed = last.prior

\* ------------------------------------------------------------------ C5
\* C5: when the first ingest of a transition id stored it with
\* times_observed 1, the stored times_observed equals the number of ingests
\* of that id that have returned, in every interleaving of the callers.
NoLostObservation ==
    \A c \in CtxIds : \A t \in DOMAIN transitions[c] :
        observed[c][t].first = 1 =>
            transitions[c][t].times_observed = observed[c][t].count

\* Three ingests of t1 have returned, the last one just now; the id was
\* created with times_observed 1.
NoLostObservation_Witness ==
    /\ last.op = "ingest_transition_record" /\ last.ok
    /\ observed["c1"]["t1"] = [count |-> 3, first |-> 1]

\* ------------------------------------------------------------------ C6
\* C6: every stored TransitionRecord has times_observed >= 1, whatever
\* times_observed the ingested payloads carry.
TimesObservedPositive ==
    \A c \in CtxIds : \A t \in DOMAIN transitions[c] :
        transitions[c][t].times_observed >= 1

\* ---------------------------------------------------------------- SpecPath
\* Path queries on the stores that upserts build.  A query reads the store
\* under its lock and changes nothing, so a behaviour is a store and one
\* query on it.  The stores are those of context c1 with the states A, B
\* and C after any choice of the transitions t1, t2 and t3 among them was
\* upserted, followed or not by the re-upsert of one of them with other ends.
PathStates == {"A", "B", "C"}
PathTrIds  == <<"t1", "t2", "t3">>
PathEnds   == PathStates \X PathStates
Absent     == << >>

RECURSIVE WithStates(_, _)
WithStates(st, ids) ==
    IF ids = {} THEN st
    ELSE LET s == CHOOSE x \in ids : TRUE
         IN  WithStates(upsert_state(st, Unlimited, StateRecord("c1", s, "d0")).st, ids \ {s})

BaseStore ==
    WithStates(upsert_context(EmptyStore, Unlimited, Context("c1", "app")).st, PathStates)

\* The store after upserting, in turn, the chosen ends of each transition id.
RECURSIVE WithTransitions(_, _, _)
WithTransitions(st, ends, i) ==
    IF i > Len(PathTrIds) THEN st
    ELSE WithTransitions(
            IF ends[i] = Absent THEN st
            ELSE upsert_transition(st, Unlimited,
                    TransitionRecord("c1", PathTrIds[i], ends[i][1], ends[i][2], "d0", 1),
                    TRUE).st,
            ends, i + 1)

\* The orders in which a set of transition ids can be iterated.
Orders ==
    {o \in [1..Len(PathTrIds) -> {PathTrIds[i] : i \in 1..Len(PathTrIds)}] :
        \A i, j \in 1..Len(PathTrIds) : i # j => o[i] # o[j]}

Depths == {None} \cup {Some(d) : d \in -1..MaxDepthArg}

InitPath ==
    /\ config = Unlimited
    /\ \E ends \in [1..Len(PathTrIds) -> PathEnds \cup {Absent}] :
       \E again \in [1..Len(PathTrIds) -> PathEnds \cup {Absent}] :
          /\ Cardinality({i \in 1..Len(PathTrIds) : again[i] # Absent}) <= 1
          /\ \A i \in 1..Len(PathTrIds) : again[i] # Absent => ends[i] # Absent
          /\ StoreIs(WithTransitions(WithTransitions(BaseStore, ends, 1), again, 1))
    /\ procs = << >>
    /\ observed = NoObserved
    /\ last = NoCall
    /\ query = NoQuery
    /\ BesideEmpty

Asked(layer, c, source, target, max_depth, answer) ==
    [found |-> answer.found, max_depth |-> max_depth, layer |-> layer,
     err |-> answer.err, ctx |-> c, src |-> source, tgt |-> target,
     path |-> answer.path]

\* A caller of GraphStore.shortest_path
StorePath(c, source, target, max_depth, order) ==
    /\ query.layer = "none"
    /\ query' = Asked("store", c, source, target, max_depth,
                      [err |-> ""] @@ shortest_path(Store, c, source, target, max_depth, order))
    /\ UNCHANGED <<config, besideVars, storeVars, procs, observed, last>>

\* A caller of QueryHandler.shortest_path
HandlerPath(c, source, target, max_depth, order) ==
    /\ query.layer = "none"
    /\ query' = Asked("handler", c, source, target, max_depth,
                      Query_shortest_path(Store, c, source, target, max_depth, order))
    /\ UNCHANGED <<config, besideVars, storeVars, procs, observed, last>>

NextPath ==
    \/ \E source \in PathStates, target \in PathStates, max_depth \in Depths, order \in Orders :
          StorePath("c1", source, target, max_depth, order)
    \/ \E source \in StateIds, target \in StateIds :
          StorePath("c2", source, target, None, PathTrIds)
    \/ \E c \in CtxIds, source \in StateIds, target \in StateIds, max_depth \in {None, Some(1)} :
          HandlerPath(c, source, target, max_depth, PathTrIds)

SpecPath == InitPath /\ [][NextPath]_vars

\* The states that stored transitions of c lead to from source in at most
\* k steps.
RECURSIVE ReachWithin(_, _, _)
ReachWithin(c, source, k) ==
    IF k <= 0 THEN {source}
    ELSE LET near == ReachWithin(c, source, k - 1)
         IN  near \cup {transitions[c][t].target_state_id :
                          t \in {u \in DOMAIN transitions[c] :
                                    transitions[c][u].source_state_id \in near}}

\* A path query was made and returned (the handler did not raise).
Answered == query.layer # "none" /\ query.err = ""

\* C7: a non-empty sequence returned by shortest_path(c, s, t) is a shortest
\* path of the current graph: each of its records is the transition stored
\* in c under its id, the first leaves s, the last enters t, each one ends
\* where the next one starts, and t is not within fewer steps of s.
ShortestPathReturned ==
    (query.layer = "store" /\ query.found /\ query.path # << >>) =>
        LET p == query.path
            k == Len(p)
        IN  /\ \A i \in 1..k :
                  /\ p[i].id \in DOMAIN transitions[query.ctx]
                  /\ transitions[query.ctx][p[i].id] = p[i]
            /\ p[1].source_state_id = query.src
            /\ p[k].target_state_id = query.tgt
            /\ \A i \in 1..(k - 1) : p[i].target_state_id = p[i + 1].source_state_id
            /\ query.tgt \notin ReachWithin(query.ctx, query.src, k - 1)

\* A two-step path was returned from a store that holds three transitions,
\* one of them upserted twice.
ShortestPathReturned_Witness ==
    /\ query.layer = "store" /\ query.found /\ Len(query.path) = 2
    /\ DOMAIN transitions[query.ctx] = {"t1", "t2", "t3"}
    /\ \E t \in DOMAIN transitions[query.ctx] : transitions[query.ctx][t].times_observed = 2

\* How far a search with this max_depth looks: no path without a repeated
\* state has more steps than there are states.
Horizon(max_depth) == IF IsNone(max_depth) THEN Cardinality(StateIds) ELSE Val(max_depth)

\* C8: for s # t, shortest_path(c, s, t, max_depth) returns None exactly
\* when t is not reachable from s along stored transitions of c, or not
\* within max_depth steps when max_depth is given; otherwise it returns a
\* path, of at most max_depth steps.
NoPathOnlyOutOfReach ==
    (Answered /\ query.src # query.tgt) =>
        /\ query.found <=>
              query.tgt \in ReachWithin(query.ctx, query.src, Horizon(query.max_depth))
        /\ query.found => query.path # << >>
        /\ (query.found /\ ~IsNone(query.max_depth)) => Len(query.path) <= Val(query.max_depth)

\* None was returned for a target that is two steps away, under max_depth 1.
NoPathOnlyOutOfReach_Witness ==
    /\ Answered /\ query.src # query.tgt /\ ~query.found
    /\ query.max_depth = Some(1)
    /\ query.tgt \in ReachWithin(query.ctx, query.src, 2)

\* C9: for a state s stored in context c, shortest_path(c, s, s) returns the
\* empty sequence, from the store and from the query handler (a path, not
\* null), whatever max_depth is and also when c holds no transition.
SamePlaceEmptyPath ==
    (/\ Answered
     /\ query.src = query.tgt
     /\ query.src \in DOMAIN states[query.ctx]) =>
        query.found /\ query.path = << >>

\* The handler answered [] for a stored state, with a max_depth, in a
\* context without transitions.
SamePlaceEmptyPath_Witness ==
    /\ query.layer = "handler" /\ query.err = ""
    /\ query.src = query.tgt
    /\ query.found /\ query.path = << >>
    /\ ~IsNone(query.max_depth)
    /\ DOMAIN transitions[query.ctx] = {}

\* ----------------------------------------------------------- SpecIngestCap
\* One caller thread of an IngestHandler whose store is configured with any
\* combination of limits.
InitIngestCap ==
    /\ config \in [max_contexts : Caps, max_states_per_context : Caps,
                   max_transitions_per_context : Caps]
    /\ StoreIs(EmptyStore)
    /\ procs = [p \in Procs |-> Idle]
    /\ observed = NoObserved
    /\ last = NoCall
    /\ query = NoQuery
    /\ BesideEmpty

NextIngestCap ==
    IngestStep("p1", CtxIds, {"A", "B"}, {"t1", "t2"}, {<<"A", "B">>}, {None})

SpecIngestCap == InitIngestCap /\ [][NextIngestCap]_vars

IngestOps == {"ingest_context", "ingest_state_record", "ingest_transition_record"}

\* C11: every failure of an IngestHandler operation is raised as
\* IngestError; no failure leaves the handler as another kind of error.
IngestFailsWithIngestError ==
    (last.op \in IngestOps /\ ~last.ok) => last.err = "IngestError"

\* ------------------------------------------------- batches and ingest_bundle
\* The single-record operations as one call each: what a caller running
\* alone gets from them, built from the same tests and store calls as the
\* steps above.
ingest_context(st, cfg, payload, overwrite) ==
    IF ~Decodes(payload) THEN Raise("IngestError", st)
    ELSE LET ctx == Context_from_dict(payload)
         IN  IF ContextRefused(get_context(st, ctx.context_id), overwrite)
             THEN Raise("IngestError", st)
             ELSE upsert_context(st, cfg, ctx)

ingest_state_record(st, cfg, payload, now) ==
    IF ~Decodes(payload) THEN Raise("IngestError", st)
    ELSE LET record == StateRecord_from_dict(payload, now)
         IN  IF ~RequireContext(st, record.context_id).ok
             THEN Raise("IngestError", st)
             ELSE upsert_state(st, cfg, record)

ingest_transition_record(st, cfg, payload, now) ==
    IF ~Decodes(payload) THEN Raise("IngestError", st)
    ELSE LET record == TransitionRecord_from_dict(payload, now)
         IN  IF ~RequireContext(st, record.context_id).ok
             THEN Raise("IngestError", st)
             ELSE IF ~RequireEndpoint(st, record, record.source_state_id).ok
             THEN Raise("IngestError", st)
             ELSE IF ~RequireEndpoint(st, record, record.target_state_id).ok
             THEN Raise("IngestError", st)
             ELSE upsert_transition(st, cfg, record, TRUE)

\* A member of a bundle, or the payload of a batch operation: absent (or
\* null), a list of items, or something that is no list.
AbsentMember == [shape |-> "absent", items |-> << >>]
NotAList     == [shape |-> "not_list", items |-> << >>]
ListOf(items) == [shape |-> "list", items |-> items]

\* The payload of ingest_bundle; context is None when the key is missing or
\* null.  A dict has no order: the members are named, not positioned.
Bundle(shape, context, sts, trs) ==
    [shape |-> shape, context |-> context, states |-> sts, transitions |-> trs]

\* Faulty variant of NextMember: the transitions are ingested before the states.
NextMember_TransitionsFirst(member) ==
    CASE member = "context"     -> "transitions"
      [] member = "transitions" -> "states"
      [] member = "states"      -> "return"

\* The fixed order of ingest_bundle's three blocks.
NextMember(member) ==
    CASE member = "context"     -> "states"
      [] member = "states"      -> "transitions"
      [] member = "transitions" -> "return"

\* Faulty variant of AfterFailure: the elements applied so far are rolled back.
AfterFailure_RolledBack(before, st) == before

\* The store a failing batch or bundle leaves: the exception propagates and
\* nothing is undone.
AfterFailure(before, st) == st

BundleOps == {"ingest_bundle", "ingest_state_records", "ingest_transition_records"}

\* The call of p: rec holds its operation, payload, the store it started
\* from, the block it is in and the index of the next element of that block.
Running(p, rec) == procs' = [procs EXCEPT ![p] = [pc |-> "b_run", rec |-> rec]]

\* The call ends: its outcome stays readable in procs[p].
Ends(p, rec, r) ==
    /\ procs' = [procs EXCEPT ![p] = [pc |-> IF r.ok THEN "b_done" ELSE "b_failed",
                                      rec |-> [rec EXCEPT !.err = r.err]]]
    /\ last' = [NoCall EXCEPT !.op = rec.op, !.ok = r.ok, !.err = r.err]

\* ingest_bundle(payload), ingest_state_records(payload) or
\* ingest_transition_records(payload) is called: the isinstance test of
\* ingest_bundle.  A batch operation is its one block.
Batch_Begin(p, op, payload) ==
    /\ At(p, "idle")
    /\ LET rec == [op |-> op, payload |-> payload, before |-> Store, err |-> "", i |-> 1,
                   member |-> CASE op = "ingest_bundle" -> "context"
                                [] op = "ingest_state_records" -> "states"
                                [] op = "ingest_transition_records" -> "transitions"]
       IN  IF op = "ingest_bundle" /\ payload.shape # "object"
           THEN Ends(p, rec, Failed("IngestError"))
           ELSE Running(p, rec) /\ UNCHANGED last
    /\ UNCHANGED <<config, besideVars, storeVars, observed, query>>

\* The block after this one; a batch operation returns after its block.
Advance(rec) ==
    [rec EXCEPT !.i = 1,
                !.member = IF rec.op = "ingest_bundle" THEN NextMember(rec.member) ELSE "return"]

\* Block 1 of ingest_bundle: ingest_context(payload["context"], overwrite=True)
Bundle_Context(p) ==
    /\ At(p, "b_run") /\ procs[p].rec.member = "context"
    /\ \E rec \in {procs[p].rec}, st \in {Store} :
          IF IsNone(rec.payload.context)
          THEN Running(p, Advance(rec)) /\ UNCHANGED <<storeVars, last>>
          ELSE \E r \in {ingest_context(st, config, Val(rec.payload.context), TRUE)} :
                  IF r.ok
                  THEN SetStore(r.st) /\ Running(p, Advance(rec)) /\ UNCHANGED last
                  ELSE SetStore(AfterFailure(rec.before, r.st)) /\ Ends(p, rec, r)
    /\ query' = NoQuery
    /\ UNCHANGED <<config, besideVars, observed>>

\* One turn of a block's loop: ingest the next element of the list with the
\* single-record operation; the isinstance test when the block starts.
Batch_Element(p, member) ==
    /\ At(p, "b_run") /\ procs[p].rec.member = member
    /\ \E rec \in {procs[p].rec}, st \in {Store} :
       \E list \in {rec.payload[member]} :
          IF list.shape = "absent"
          THEN Running(p, Advance(rec)) /\ UNCHANGED <<storeVars, last>>
          ELSE IF list.shape = "not_list"
          THEN SetStore(AfterFailure(rec.before, st)) /\ Ends(p, rec, Failed("IngestError"))
          ELSE IF rec.i > Len(list.items)
          THEN Running(p, Advance(rec)) /\ UNCHANGED <<storeVars, last>>
          ELSE \E r \in {IF member = "states"
                          THEN ingest_state_record(st, config, list.items[rec.i], "d1")
                          ELSE ingest_transition_record(st, config, list.items[rec.i], "d1")} :
                  IF r.ok
                  THEN /\ SetStore(r.st)
                       /\ Running(p, [rec EXCEPT !.i = @ + 1])
                       /\ UNCHANGED last
                  ELSE SetStore(AfterFailure(rec.before, r.st)) /\ Ends(p, rec, r)
    /\ query' = NoQuery
    /\ UNCHANGED <<config, besideVars, observed>>

\* ingest_state_records, alone or as block 2 of ingest_bundle
Batch_State(p) == Batch_Element(p, "states")

\* ingest_transition_records, alone or as block 3 of ingest_bundle
Batch_Transition(p) == Batch_Element(p, "transitions")

\* The summary is returned.
Batch_Return(p) ==
    /\ At(p, "b_run") /\ procs[p].rec.member = "return"
    /\ Ends(p, procs[p].rec, Returned)
    /\ UNCHANGED <<config, besideVars, storeVars, observed, query>>

\* ingest_context(payload, overwrite) by a caller running alone, as one step.
IngestContext(p, payload, overwrite) ==
    /\ At(p, "idle")
    /\ \E st \in {Store} : \E r \in {ingest_context(st, config, payload, overwrite)} :
          /\ SetStore(r.st)
          /\ Ends(p, [op |-> "ingest_context", payload |-> payload, before |-> st,
                      err |-> "", overwrite |-> overwrite], r)
    /\ query' = NoQuery
    /\ UNCHANGED <<config, besideVars, observed>>

\* -------------------------------------------------------------- SpecBundle
\* One batch or bundle call by one caller thread, on a store that earlier
\* ingests left.  State C and transition t2 (B to C) make the difference
\* between a bundle that brings its states and one that relies on the store.
SeqsUpTo(S, n) == UNION {[1..k -> S] : k \in 0..n}

StateItems ==
    {StatePayload("object", "c1", s, Some("d0")) : s \in {"A", "B"}}
        \cup {StatePayload("not_object", "c1", "A", Some("d0"))}

TransitionItems ==
    {TransitionPayload("object", "c1", "t1", "A", "B", Some("d0"), None),
     TransitionPayload("object", "c1", "t2", "B", "C", Some("d0"), None),
     TransitionPayload("not_object", "c1", "t1", "A", "B", Some("d0"), None)}

StateMembers == {AbsentMember, NotAList} \cup {ListOf(l) : l \in SeqsUpTo(StateItems, MaxBatch)}

TransitionMembers ==
    {AbsentMember, NotAList} \cup {ListOf(l) : l \in SeqsUpTo(TransitionItems, MaxBatch)}

ContextMembers ==
    {None, Some(ContextPayload("object", "c1", "app2")),
     Some(ContextPayload("not_object", "c1", "app2"))}

Bundles ==
    {Bundle("object", c, sts, trs) :
        c \in ContextMembers, sts \in StateMembers, trs \in TransitionMembers}
        \cup {Bundle("not_object", None, AbsentMember, AbsentMember)}

\* The stores the call finds: empty; context c1 alone; c1 with state C; c1
\* with A, B, C and the transition t1.
BundleStores ==
    LET one == upsert_context(EmptyStore, Unlimited, Context("c1", "app")).st
        two == upsert_state(one, Unlimited, StateRecord("c1", "C", "d0")).st
        three == upsert_transition(
                    WithStates(one, {"A", "B", "C"}), Unlimited,
                    TransitionRecord("c1", "t1", "A", "B", "d0", 1), TRUE).st
    IN  {EmptyStore, one, two, three}

BundleConfigs ==
    {Unlimited,
     [Unlimited EXCEPT !.max_states_per_context = Some(MaxCap)],
     [Unlimited EXCEPT !.max_contexts = Some(MaxCap)]}

InitBundle ==
    /\ \E st \in BundleStores, cfg \in BundleConfigs :
          /\ Within(cfg.max_contexts, Cardinality(DOMAIN st.contexts))
          /\ Within(cfg.max_states_per_context, Cardinality(DOMAIN st.states["c1"]))
          /\ config = cfg
          /\ StoreIs(st)
    /\ procs = [p \in Procs |-> Idle]
    /\ observed = NoObserved
    /\ last = NoCall
    /\ query = NoQuery
    /\ BesideEmpty

NextBundle ==
    \/ \E b \in Bundles : Batch_Begin("p1", "ingest_bundle", b)
    \/ \E sts \in StateMembers \ {AbsentMember} :
          Batch_Begin("p1", "ingest_state_records", Bundle("object", None, sts, AbsentMember))
    \/ \E trs \in TransitionMembers \ {AbsentMember} :
          Batch_Begin("p1", "ingest_transition_records",
                      Bundle("object", None, AbsentMember, trs))
    \/ \E shape \in IngestShapes, c \in CtxIds, overwrite \in BOOLEAN :
          IngestContext("p1", ContextPayload(shape, c, "app2"), overwrite)
    \/ Bundle_Context("p1")
    \/ Batch_State("p1")
    \/ Batch_Transition("p1")
    \/ Batch_Return("p1")

SpecBundle == InitBundle /\ [][NextBundle]_vars

\* The ids a list member brings.
ItemIds(member) == {member.items[j].id : j \in 1..Len(member.items)}

\* The call of p has ended (returned or raised).
Ended(p) == procs[p].pc \in {"b_done", "b_failed"}

\* A well-formed bundle that carries its context, and whose transitions
\* have their source and target among the bundle's states or the states
\* the store held when the call began.
SelfSufficient(rec) ==
    LET b == rec.payload
        known == ItemIds(b.states) \cup DOMAIN rec.before.states["c1"]
    IN  /\ b.shape = "object"
        /\ ~IsNone(b.context) /\ Decodes(Val(b.context))
        /\ b.states.shape # "not_list" /\ b.transitions.shape # "not_list"
        /\ \A j \in 1..Len(b.states.items) : Decodes(b.states.items[j])
        /\ \A j \in 1..Len(b.transitions.items) :
              /\ Decodes(b.transitions.items[j])
              /\ b.transitions.items[j].source_state_id \in known
              /\ b.transitions.items[j].target_state_id \in known

\* The bundle's context, states and transitions are all stored.
BundleStored(rec) ==
    LET b == rec.payload
    IN  /\ get_context(Store, "c1") = Some(Context_from_dict(Val(b.context)))
        /\ ItemIds(b.states) \subseteq DOMAIN states["c1"]
        /\ ItemIds(b.transitions) \subseteq DOMAIN transitions["c1"]

\* No limit of cfg is reached in store st.
NoBoundReached(cfg, st) ==
    /\ ~AtCapacity(cfg.max_contexts, Cardinality(DOMAIN st.contexts))
    /\ \A c \in CtxIds :
          /\ ~AtCapacity(cfg.max_states_per_context, Cardinality(DOMAIN st.states[c]))
          /\ ~AtCapacity(cfg.max_transitions_per_context,
                         Cardinality(DOMAIN st.transitions[c]))

\* The limits of cfg leave room for every id the bundle adds to st.
RoomFor(cfg, st, b) ==
    /\ Within(cfg.max_contexts, Cardinality(DOMAIN st.contexts \cup {"c1"}))
    /\ Within(cfg.max_states_per_context,
              Cardinality(DOMAIN st.states["c1"] \cup ItemIds(b.states)))
    /\ Within(cfg.max_transitions_per_context,
              Cardinality(DOMAIN st.transitions["c1"] \cup ItemIds(b.transitions)))

\* C12 as stated: from a store in which no capacity bound is reached, a
\* self-sufficient bundle succeeds and all its members are stored.
BundleSucceedsBelowBounds ==
    \A p \in Procs :
        (/\ Ended(p) /\ procs[p].rec.op = "ingest_bundle"
         /\ SelfSufficient(procs[p].rec)
         /\ NoBoundReached(config, procs[p].rec.before)) =>
            procs[p].pc = "b_done" /\ BundleStored(procs[p].rec)

\* C12: ingest_bundle ingests the context, then the states, then the
\* transitions; so from a store whose capacity bounds leave room for what
\* the bundle adds, a bundle that carries its context and whose transitions
\* reference only states of the bundle or already stored succeeds, and its
\* context, states and transitions are stored afterwards.
BundleSucceedsWithRoom ==
    \A p \in Procs :
        (/\ Ended(p) /\ procs[p].rec.op = "ingest_bundle"
         /\ SelfSufficient(procs[p].rec)
         /\ RoomFor(config, procs[p].rec.before, procs[p].rec.payload)) =>
            procs[p].pc = "b_done" /\ BundleStored(procs[p].rec)

\* A bundle brought the context, both states and the transition between
\* them to an empty store, and returned.
BundleSucceedsWithRoom_Witness ==
    /\ procs["p1"].pc = "b_done" /\ procs["p1"].rec.op = "ingest_bundle"
    /\ SelfSufficient(procs["p1"].rec)
    /\ procs["p1"].rec.before = EmptyStore
    /\ ItemIds(procs["p1"].rec.payload.states) = {"A", "B"}
    /\ "t1" \in DOMAIN transitions["c1"]

\* The store after the members and elements that precede the one at which
\* the call of rec stands.
RECURSIVE AfterItems(_, _, _, _)
AfterItems(st, items, n, member) ==
    IF n = 0 THEN st
    ELSE LET earlier == AfterItems(st, items, n - 1, member)
         IN  IF member = "states"
             THEN ingest_state_record(earlier, config, items[n], "d1").st
             ELSE ingest_transition_record(earlier, config, items[n], "d1").st

AfterEarlier(rec) ==
    LET b == rec.payload
        s0 == rec.before
        s1 == IF rec.member # "context" /\ ~IsNone(b.context)
              THEN ingest_context(s0, config, Val(b.context), TRUE).st ELSE s0
        s2 == IF rec.member = "transitions"
              THEN AfterItems(s1, b.states.items, Len(b.states.items), "states")
              ELSE s1
    IN  CASE rec.member = "context" -> s0
          [] rec.member = "states" ->
                AfterItems(s1, b.states.items, rec.i - 1, "states")
          [] rec.member = "transitions" ->
                AfterItems(s2, b.transitions.items, rec.i - 1, "transitions")

\* C13: when a batch or a bundle fails at an element, the elements before it
\* (and the bundle members before its list) remain stored, that element and
\* the later ones are not applied, and the caller gets the failure.
PartialFailureKeepsPrefix ==
    \A p \in Procs :
        (/\ procs[p].pc = "b_failed" /\ procs[p].rec.op \in BundleOps
         /\ procs[p].rec.payload.shape = "object") =>
            LET rec == procs[p].rec
                b == rec.payload
            IN  /\ rec.err # "" /\ ~last.ok /\ last.err = rec.err
                /\ Store = AfterEarlier(rec)
                /\ rec.member = "states" =>
                      \A j \in 1..(rec.i - 1) : b.states.items[j].id \in DOMAIN states["c1"]
                /\ rec.member = "transitions" =>
                      /\ ItemIds(b.states) \subseteq DOMAIN states["c1"]
                      /\ \A j \in 1..(rec.i - 1) :
                            b.transitions.items[j].id \in DOMAIN transitions["c1"]
                /\ (rec.op = "ingest_bundle" /\ rec.member # "context" /\ ~IsNone(b.context))
                      => get_context(Store, "c1") = Some(Context_from_dict(Val(b.context)))

\* A bundle failed at its second transition: the context, both states and
\* the first transition are new in the store, the second transition is not.
PartialFailureKeepsPrefix_Witness ==
    LET rec == procs["p1"].rec
    IN  /\ procs["p1"].pc = "b_failed" /\ rec.op = "ingest_bundle"
        /\ rec.member = "transitions" /\ rec.i = 2
        /\ rec.before = EmptyStore
        /\ DOMAIN states["c1"] = {"A", "B"}
        /\ DOMAIN transitions["c1"] = {"t1"}
        /\ rec.payload.transitions.items[2].id = "t2"

\* ------------------------------------------------------------------ C14
\* C14: every StateRecord and every TransitionRecord stored under a context
\* id c has a Context with id c in the store.
RecordsHaveContext ==
    \A c \in CtxIds :
        (DOMAIN states[c] # {} \/ DOMAIN transitions[c] # {}) => c \in DOMAIN contexts

\* A state ingest has just stored its record while the other thread is in
\* the middle of an ingest.
RecordsHaveContext_Witness ==
    /\ last.op = "ingest_state_record" /\ last.ok
    /\ last.id \in DOMAIN states[last.ctx]
    /\ \E p \in Procs : ~At(p, "idle")

\* ------------------------------------------------------------------ C15
\* What ingest_context must have done when its call ended, given whether a
\* new context id may be turned away for lack of room.
ContextOutcome(p, bounded) ==
    LET rec == procs[p].rec
        ctx == Context_from_dict(rec.payload)
        existed == ctx.context_id \in DOMAIN rec.before.contexts
    IN  IF existed /\ ~rec.overwrite
        THEN /\ procs[p].pc = "b_failed" /\ rec.err = "IngestError"
             /\ Store = rec.before
        ELSE IF /\ bounded /\ ~existed
                /\ AtCapacity(config.max_contexts, Cardinality(DOMAIN rec.before.contexts))
        THEN /\ procs[p].pc = "b_failed"
             /\ Store = rec.before
        ELSE /\ procs[p].pc = "b_done"
             /\ get_context(Store, ctx.context_id) = Some(ctx)

\* C15 as stated: ingest_context(payload, overwrite=false) fails when a
\* context with the payload's context_id is stored, and leaves the store as
\* it was; with overwrite=true, or when no such context is stored, it
\* stores the decoded context.
OverwriteRespected ==
    \A p \in Procs :
        (/\ Ended(p) /\ procs[p].rec.op = "ingest_context"
         /\ Decodes(procs[p].rec.payload)) => ContextOutcome(p, FALSE)

\* C15: as above, except that a context id not yet stored is turned away,
\* and nothing stored, when the store already holds max_contexts contexts.
OverwriteRespectedWithRoom ==
    \A p \in Procs :
        (/\ Ended(p) /\ procs[p].rec.op = "ingest_context"
         /\ Decodes(procs[p].rec.payload)) => ContextOutcome(p, TRUE)

\* ingest_context with overwrite=false failed on a stored context, which
\* still carries its own app_id and not the payload's.
OverwriteRespectedWithRoom_Witness ==
    /\ procs["p1"].pc = "b_failed" /\ procs["p1"].rec.op = "ingest_context"
    /\ Decodes(procs["p1"].rec.payload)
    /\ ~procs["p1"].rec.overwrite
    /\ contexts["c1"].app_id = "app"
    /\ procs["p1"].rec.payload.app_id = "app2"

\* --------------------------------------------------------------- SpecFrame
\* Callers of the three upserts that replace what is stored by something
\* different: a context by one with another app_id, a state by one with
\* another discovered_at, while transition t1 runs between A and B.
InitFrame == Init

NextFrame ==
    \/ \E c \in CtxIds, app \in AppIds : UpsertContext(c, app)
    \/ \E s \in {"A", "B"}, at \in Stamps : UpsertState("c1", s, at)
    \/ \E e \in {<<"A", "B">>, <<"B", "A">>} :
          UpsertTransition("c1", "t1", e[1], e[2], "d0", 1, FALSE)

SpecFrame == InitFrame /\ [][NextFrame]_vars

\* map2 is map1 except, at most, for the entry of key.
SameButFor(map1, map2, key) ==
    /\ DOMAIN map2 \subseteq DOMAIN map1 \cup {key}
    /\ \A k \in DOMAIN map1 \ {key} : k \in DOMAIN map2 /\ map2[k] = map1[k]

\* C16: upsert_context changes only the contexts entry of its context_id,
\* and upsert_state only states[c][id]; neither changes a stored transition
\* or an outgoing or incoming index entry of any context.
UpsertFrame ==
    [][/\ last'.op = "upsert_context" =>
            /\ SameButFor(contexts, contexts', last'.ctx)
            /\ UNCHANGED <<states, transitions, outgoing, incoming>>
       /\ last'.op = "upsert_state" =>
            /\ \A c \in CtxIds :
                  IF c = last'.ctx THEN SameButFor(states[c], states'[c], last'.id)
                  ELSE states'[c] = states[c]
            /\ UNCHANGED <<contexts, transitions, outgoing, incoming>>]_vars

\* upsert_state has just replaced a state that a stored transition leaves,
\* in a context that was itself replaced by one with another app_id.
UpsertFrame_Witness ==
    /\ last.op = "upsert_state" /\ last.ok /\ last.existed
    /\ states["c1"][last.id].discovered_at = "d1"
    /\ "t1" \in DOMAIN transitions["c1"]
    /\ transitions["c1"]["t1"].source_state_id = last.id
    /\ "c1" \in DOMAIN contexts /\ contexts["c1"].app_id = "app2"

\* --------------------------------------------------------------- SpecAlias
\* get_context, get_state and get_transition return the object the store
\* holds (dict.get), and list_* a new list of those same objects; the
\* records are dataclasses that are not frozen.  A caller that assigns to a
\* field of what it was given therefore assigns to the stored object: here,
\* to the store's entry, and to nothing else in the store.
Assigned(op, c, id) == [NoCall EXCEPT !.op = op, !.ctx = c, !.id = id]

\* record = store.get_transition(c, t); record.times_observed = n
AssignTimesObserved(c, t, n) ==
    /\ ~IsNone(get_transition(Store, c, t))
    /\ transitions' = [transitions EXCEPT ![c][t].times_observed = n]
    /\ last' = Assigned("assign_returned", c, t)
    /\ query' = NoQuery
    /\ UNCHANGED <<config, besideVars, contexts, states, outgoing, incoming, procs, observed>>

\* record = store.get_transition(c, t); record.transition.source_state_id = s
AssignSource(c, t, s) ==
    /\ ~IsNone(get_transition(Store, c, t))
    /\ transitions' = [transitions EXCEPT ![c][t].source_state_id = s]
    /\ last' = Assigned("assign_returned", c, t)
    /\ query' = NoQuery
    /\ UNCHANGED <<config, besideVars, contexts, states, outgoing, incoming, procs, observed>>

\* record = store.get_state(c, s); record.discovered_at = at
AssignDiscoveredAt(c, s, at) ==
    /\ ~IsNone(get_state(Store, c, s))
    /\ states' = [states EXCEPT ![c][s].discovered_at = at]
    /\ last' = Assigned("assign_returned", c, s)
    /\ query' = NoQuery
    /\ UNCHANGED <<config, besideVars, contexts, transitions, outgoing, incoming, procs, observed>>

\* records = store.list_transitions(c); del records[:]  (the list is the
\* caller's own)
ClearReturnedList(c) ==
    /\ last' = Assigned("clear_returned_list", c, "")
    /\ query' = NoQuery
    /\ UNCHANGED <<config, besideVars, storeVars, procs, observed>>

InitAlias == Init

NextAlias ==
    \/ UpsertContext("c1", "app")
    \/ \E s \in {"A", "B"} : UpsertState("c1", s, "d0")
    \/ \E e \in {<<"A", "B">>, <<"B", "A">>}, inc \in BOOLEAN :
          UpsertTransition("c1", "t1", e[1], e[2], "d0", 1, inc)
    \/ \E n \in 0..MaxObserved : AssignTimesObserved("c1", "t1", n)
    \/ \E s \in {"A", "B"} : AssignSource("c1", "t1", s)
    \/ \E s \in {"A", "B"}, at \in Stamps : AssignDiscoveredAt("c1", s, at)
    \/ ClearReturnedList("c1")

SpecAlias == InitAlias /\ [][NextAlias]_vars

\* C17: what the read operations return are snapshots: a caller that
\* modifies a returned record or list changes neither what the store
\* returns afterwards nor its incidence indices.
ReadsAreSnapshots ==
    [][last'.op \in {"assign_returned", "clear_returned_list"} =>
            /\ ReaderView(Store)' = ReaderView(Store)
            /\ UNCHANGED <<outgoing, incoming>>]_vars

\* ---------------------------------------------------------------- SpecLock
\* upsert_transition statement by statement, and a reader, both under the
\* store's lock ("with self._lock").  Thread p1 writes, thread p2 reads.
\* A thread holds the lock while it is between two statements of a locked
\* block.
Critical == {"w_locked", "w_checked", "w_stored", "w_out", "r_ids"}

\* Faulty variant of LockFree: the lock is never found taken.
LockFree_Ignored == TRUE

\* The lock can be acquired: no thread is inside a locked block.
LockFree == \A p \in Procs : procs[p].pc \notin Critical

Step(p, pc, rec) == procs' = [procs EXCEPT ![p] = [pc |-> pc, rec |-> rec]]

\* upsert_transition(record, increment_observed) is called and takes the lock.
Write_Acquire(p, record, inc) ==
    /\ At(p, "idle") /\ LockFree
    /\ Step(p, "w_locked", [before |-> Store, record |-> record, err |-> "", inc |-> inc])
    /\ UNCHANGED <<config, besideVars, storeVars, observed, last, query>>

\* "if tr_id in ctx_transitions": the two discards and the merge of
\* times_observed into the caller's record; else the capacity test.
Write_Check(p) ==
    /\ At(p, "w_locked")
    /\ LET rec == procs[p].rec
           record == rec.record
           c == record.context_id
           t == record.id
       IN  IF t \in DOMAIN transitions[c]
           THEN LET existing == transitions[c][t]
                IN  /\ outgoing' = [outgoing EXCEPT ![c] =
                          DiscardStale(@, existing.source_state_id, record.source_state_id, t)]
                    /\ incoming' = [incoming EXCEPT ![c] =
                          DiscardStale(@, existing.target_state_id, record.target_state_id, t)]
                    /\ Step(p, "w_checked",
                            [rec EXCEPT !.record.times_observed =
                                            MergeTimesObserved(existing, record, rec.inc)])
           ELSE /\ IF TransitionCapacityExceeded(config, transitions[c])
                   THEN Step(p, "w_done", [rec EXCEPT !.err = "RuntimeError"])
                   ELSE Step(p, "w_checked", rec)
                /\ UNCHANGED <<outgoing, incoming>>
    /\ UNCHANGED <<config, besideVars, contexts, states, transitions, observed, last, query>>

\* ctx_transitions[tr_id] = record
Write_Store(p) ==
    /\ At(p, "w_checked")
    /\ LET record == procs[p].rec.record
       IN  transitions' = [transitions EXCEPT ![record.context_id] = Put(@, record.id, record)]
    /\ Step(p, "w_stored", procs[p].rec)
    /\ UNCHANGED <<config, besideVars, contexts, states, outgoing, incoming, observed, last, query>>

\* self._outgoing[ctx_id][src].add(tr_id)
Write_IndexOutgoing(p) ==
    /\ At(p, "w_stored")
    /\ LET record == procs[p].rec.record
       IN  outgoing' = [outgoing EXCEPT ![record.context_id][record.source_state_id] =
                                            @ \cup {record.id}]
    /\ Step(p, "w_out", procs[p].rec)
    /\ UNCHANGED <<config, besideVars, contexts, states, transitions, incoming, observed, last, query>>

\* self._incoming[ctx_id][tgt].add(tr_id), and the lock is released.
Write_IndexIncoming(p) ==
    /\ At(p, "w_out")
    /\ LET record == procs[p].rec.record
       IN  incoming' = [incoming EXCEPT ![record.context_id][record.target_state_id] =
                                            @ \cup {record.id}]
    /\ Step(p, "w_done", procs[p].rec)
    /\ UNCHANGED <<config, besideVars, contexts, states, transitions, outgoing, observed, last, query>>

ReadOps == {"list_transitions", "list_outgoing", "list_incoming"}

\* What a read operation returns on store st.
ReadResult(st, op, c, s) ==
    CASE op = "list_transitions" -> list_transitions(st, c)
      [] op = "list_outgoing"    -> get_outgoing_transitions(st, c, s)
      [] op = "list_incoming"    -> get_incoming_transitions(st, c, s)

\* A read operation is called; waited tells whether it found the lock taken.
Read_Call(p, op, c, s) ==
    /\ At(p, "idle")
    /\ Step(p, "r_wait", [op |-> op, ctx |-> c, state |-> s, waited |-> ~LockFree,
                          ids |-> {}, result |-> {}])
    /\ UNCHANGED <<config, besideVars, storeVars, observed, last, query>>

\* The read takes the lock.  list_transitions copies the values and is
\* done; the other two first fetch the set of ids from the index.
Read_Ids(p) ==
    /\ At(p, "r_wait") /\ LockFree
    /\ LET rec == procs[p].rec
       IN  CASE rec.op = "list_transitions" ->
                   Step(p, "r_done", [rec EXCEPT !.result = list_transitions(Store, rec.ctx)])
             [] rec.op = "list_outgoing" ->
                   Step(p, "r_ids", [rec EXCEPT !.ids = outgoing[rec.ctx][rec.state]])
             [] rec.op = "list_incoming" ->
                   Step(p, "r_ids", [rec EXCEPT !.ids = incoming[rec.ctx][rec.state]])
    /\ UNCHANGED <<config, besideVars, storeVars, observed, last, query>>

\* "[ctx_transitions[tid] for tid in transition_ids if tid in
\* ctx_transitions]", and the lock is released.
Read_Build(p) ==
    /\ At(p, "r_ids")
    /\ LET rec == procs[p].rec
       IN  Step(p, "r_done",
                [rec EXCEPT !.result =
                    {transitions[rec.ctx][t] : t \in rec.ids \cap DOMAIN transitions[rec.ctx]}])
    /\ UNCHANGED <<config, besideVars, storeVars, observed, last, query>>

\* The stores a write finds: context c1 with its states and no transition,
\* or with t1 from A to B.
LockStores ==
    LET base == WithStates(upsert_context(EmptyStore, Unlimited, Context("c1", "app")).st,
                           {"A", "B", "C"})
    IN  {base, upsert_transition(base, Unlimited,
                                 TransitionRecord("c1", "t1", "A", "B", "d0", 1), TRUE).st}

InitLock ==
    /\ config \in {Unlimited, [Unlimited EXCEPT !.max_transitions_per_context = Some(MaxCap)]}
    /\ \E st \in LockStores : StoreIs(st)
    /\ procs = [p \in Procs |-> Idle]
    /\ observed = NoObserved
    /\ last = NoCall
    /\ query = NoQuery
    /\ BesideEmpty

NextLock ==
    \/ \E t \in {"t1", "t2"}, e \in {<<"A", "B">>, <<"B", "A">>, <<"B", "C">>},
          inc \in BOOLEAN :
          Write_Acquire("p1", TransitionRecord("c1", t, e[1], e[2], "d0", 1), inc)
    \/ Write_Check("p1")
    \/ Write_Store("p1")
    \/ Write_IndexOutgoing("p1")
    \/ Write_IndexIncoming("p1")
    \/ \E op \in ReadOps, s \in {"A", "B", "C"} : Read_Call("p2", op, "c1", s)
    \/ Read_Ids("p2")
    \/ Read_Build("p2")

SpecLock == InitLock /\ [][NextLock]_vars

\* The store before the write of thread p1, and the store after it.
PreState == IF At("p1", "idle") THEN Store ELSE procs["p1"].rec.before

PostState ==
    IF At("p1", "idle") THEN Store
    ELSE upsert_transition(PreState, config, procs["p1"].rec.record, procs["p1"].rec.inc).st

\* C18: a list_transitions, list_outgoing or list_incoming call that runs
\* while an upsert_transition does returns what it returns on the store
\* before the upsert or what it returns on the store after it, and nothing
\* in between.  (A finished upsert has left the store in its post-state.)
ReadsSeeWholeUpsert ==
    /\ At("p2", "r_done") =>
          LET rec == procs["p2"].rec
          IN  rec.result \in {ReadResult(PreState, rec.op, rec.ctx, rec.state),
                              ReadResult(PostState, rec.op, rec.ctx, rec.state)}
    /\ At("p1", "w_done") => Store = PostState

\* A list_outgoing call that found the lock taken by an upsert redirecting
\* t1 has returned the post-state, which differs from the pre-state.
ReadsSeeWholeUpsert_Witness ==
    LET rec == procs["p2"].rec
    IN  /\ At("p2", "r_done") /\ rec.waited /\ rec.op = "list_outgoing"
        /\ At("p1", "w_done")
        /\ rec.result = ReadResult(PostState, rec.op, rec.ctx, rec.state)
        /\ rec.result # ReadResult(PreState, rec.op, rec.ctx, rec.state)
        /\ \E r \in rec.result : r.source_state_id = "B" /\ r.times_observed = 2

\* ------------------------------------------------------------------ C19
\* The ids under which the store holds a context, a state, a transition.
StoredIds(st) ==
    [contexts    |-> DOMAIN st.contexts,
     states      |-> [c \in CtxIds |-> DOMAIN st.states[c]],
     transitions |-> [c \in CtxIds |-> DOMAIN st.transitions[c]]]

\* Every listing holds one record for each stored id and no other record.
OneRecordPerId ==
    /\ \A c \in DOMAIN contexts : contexts[c].context_id = c
    /\ Cardinality(list_contexts(Store)) = Cardinality(DOMAIN contexts)
    /\ \A c \in CtxIds :
          /\ \A s \in DOMAIN states[c] : states[c][s].id = s /\ states[c][s].context_id = c
          /\ \A t \in DOMAIN transitions[c] :
                transitions[c][t].id = t /\ transitions[c][t].context_id = c
          /\ Cardinality(list_states(Store, c)) = Cardinality(DOMAIN states[c])
          /\ Cardinality(list_transitions(Store, c)) = Cardinality(DOMAIN transitions[c])

IdsGrow(old, new) ==
    /\ old.contexts \subseteq new.contexts
    /\ \A c \in CtxIds : /\ old.states[c] \subseteq new.states[c]
                         /\ old.transitions[c] \subseteq new.transitions[c]

\* C19: no step of a GraphStore or IngestHandler operation removes a
\* context, a state or a transition: the stored context ids, the state ids
\* of each context and the transition ids of each context only grow, and
\* there is one record per id (a re-upsert replaces the record under its
\* id).
NothingRemoved ==
    /\ []OneRecordPerId
    /\ [][IdsGrow(StoredIds(Store), StoredIds(Store'))]_vars

\* t1 has just been ingested again with other endpoints: it is still the
\* only transition, and both states and the context are still stored.
NothingRemoved_Witness ==
    /\ last.op = "ingest_transition_record" /\ last.ok /\ last.moved
    /\ DOMAIN contexts = {"c1"}
    /\ DOMAIN states["c1"] = {"A", "B"}
    /\ DOMAIN transitions["c1"] = {"t1"}
    /\ transitions["c1"]["t1"].source_state_id = last.src

\* ---------------------------------------------------------------- SpecTags
\* Tags are strings, modelled as sequences of characters over an alphabet
\* with a lower-case letter, its upper-case form and a blank.
Chars == {"m", "M", " "}

TagStrings == SeqsUpTo(Chars, MaxTagLen)

\* str.lower()
lower(s) == [i \in DOMAIN s |-> IF s[i] = "M" THEN "m" ELSE s[i]]

\* str.strip(): without its leading and its trailing blanks.
RECURSIVE strip(_)
strip(s) ==
    IF s = << >> THEN s
    ELSE IF Head(s) = " " THEN strip(Tail(s))
    ELSE IF s[Len(s)] = " " THEN strip(SubSeq(s, 1, Len(s) - 1))
    ELSE s

\* Faulty variant of Normalised: the case is folded, the blanks are kept.
Normalised_Untrimmed(s) == lower(s)

\* s.strip().lower()
Normalised(s) == lower(strip(s))

\* A StateRecord with its tags and the two metadata keys the filters read
\* (None for a key the dict lacks).
TaggedState(c, s, tags, source, review_status) ==
    [tags |-> tags, metadata |-> [source |-> source, review_status |-> review_status]]
        @@ StateRecord(c, s, "d0")

\* GraphStore.find_states_by_tag
find_states_by_tag(st, c, tag) ==
    LET norm == Normalised(tag)
    IN  {s \in list_states(st, c) : \E t \in s.tags : Normalised(t) = norm}

\* Python's truth value of an Optional[str]: None and the empty string are
\* false.
Truthy(opt, empty) == ~IsNone(opt) /\ Val(opt) # empty

\* QueryHandler.list_states
Query_list_states(st, c, tag, source, review_status) ==
    IF IsNone(get_context(st, c)) THEN [err |-> "QueryError", states |-> {}]
    ELSE LET base == IF Truthy(tag, << >>) /\ ~(Truthy(source, "") \/ Truthy(review_status, ""))
                     THEN find_states_by_tag(st, c, Val(tag))
                     ELSE list_states(st, c)
             bySource == IF ~IsNone(source)
                         THEN {r \in base : r.metadata.source = source}
                         ELSE base
             byReview == IF ~IsNone(review_status)
                         THEN {r \in bySource : r.metadata.review_status = review_status}
                         ELSE bySource
             byTag    == IF Truthy(tag, << >>)
                         THEN LET t_norm == lower(strip(Val(tag)))
                              IN  {r \in byReview :
                                      \E tt \in r.tags : lower(strip(tt)) = t_norm}
                         ELSE byReview
         IN  [err |-> "", states |-> byTag]

Sources  == {None, Some(""), Some("auto"), Some("human")}
Reviews  == {None, Some("pending")}
TagLists == {{}} \cup {{t} : t \in TagStrings} \cup {{<<"M">>, <<"m", " ">>}}

\* Context c1 with state A, tagged and annotated in every way, and state B
\* with tag "m", source "human" and review_status "pending".
InitTags ==
    /\ config = Unlimited
    /\ \E tags \in TagLists, source \in {None, Some("auto")}, review_status \in Reviews :
          StoreIs(upsert_state(
                    upsert_state(upsert_context(EmptyStore, Unlimited, Context("c1", "app")).st,
                                 Unlimited,
                                 TaggedState("c1", "A", tags, source, review_status)).st,
                    Unlimited,
                    TaggedState("c1", "B", {<<"m">>}, Some("human"), Some("pending"))).st)
    /\ procs = << >>
    /\ observed = NoObserved
    /\ last = NoCall
    /\ query = NoQuery
    /\ BesideEmpty

AskedStates(layer, c, tag, source, review_status, answer) ==
    [source |-> source, layer |-> layer, review_status |-> review_status, tag |-> tag,
     err |-> answer.err, states |-> answer.states, ctx |-> c]

\* A caller of QueryHandler.list_states
HandlerListStates(c, tag, source, review_status) ==
    /\ query.layer = "none"
    /\ query' = AskedStates("handler", c, tag, source, review_status,
                            Query_list_states(Store, c, tag, source, review_status))
    /\ UNCHANGED <<config, besideVars, storeVars, procs, observed, last>>

\* A caller of GraphStore.find_states_by_tag
StoreFindStatesByTag(c, tag) ==
    /\ query.layer = "none"
    /\ query' = AskedStates("store", c, Some(tag), None, None,
                            [err |-> "", states |-> find_states_by_tag(Store, c, tag)])
    /\ UNCHANGED <<config, besideVars, storeVars, procs, observed, last>>

NextTags ==
    \/ \E c \in CtxIds, tag \in {None} \cup {Some(t) : t \in TagStrings},
          source \in Sources, review_status \in Reviews :
          HandlerListStates(c, tag, source, review_status)
    \/ \E tag \in TagStrings : StoreFindStatesByTag("c1", tag)

SpecTags == InitTags /\ [][NextTags]_vars

\* One of the record's tags equals the given tag once both are trimmed and
\* lower-cased.
TagMatches(r, tag) == \E t \in r.tags : lower(strip(t)) = lower(strip(tag))

\* The states of c that satisfy every filter of the three that is given.
Selected(st, c, tag, source, review_status) ==
    {r \in list_states(st, c) :
        /\ ~IsNone(tag) => TagMatches(r, Val(tag))
        /\ ~IsNone(source) => r.metadata.source = source
        /\ ~IsNone(review_status) => r.metadata.review_status = review_status}

\* C20: QueryHandler.list_states(c, tag, source, review_status) returns
\* exactly the states of c that satisfy every supplied filter (a tag matches
\* when one of the state's tags equals it after trimming and lower-casing
\* both; source and review_status match the metadata exactly), and
\* find_states_by_tag selects the states the tag filter selects.
ListStatesSelected ==
    /\ (query.layer = "handler" /\ query.err = "") =>
          query.states = Selected(Store, query.ctx, query.tag, query.source,
                                  query.review_status)
    /\ query.layer = "store" =>
          query.states = Selected(Store, query.ctx, query.tag, None, None)

\* The same with a tag that is None or empty counted as no tag filter.
ListStatesSelectedByTruthyTag ==
    /\ (query.layer = "handler" /\ query.err = "") =>
          query.states = Selected(Store, query.ctx,
                                  IF Truthy(query.tag, << >>) THEN query.tag ELSE None,
                                  query.source, query.review_status)
    /\ query.layer = "store" =>
          query.states = Selected(Store, query.ctx, query.tag, None, None)

\* ------------------------------------------------------------ WorkflowStore
WorkflowIds == {"w1", "w2"}

\* A Workflow (label, description, intent_id, tags and metadata are carried
\* along unread; label stands for them).
Workflow(w, c, label, tids) ==
    [workflow_id |-> w, context_id |-> c, label |-> label, transition_ids |-> tids]

\* The WorkflowStore as one value.
WStore == [workflows |-> workflows, by_context |-> by_context]

EmptyWStore == [workflows |-> EmptyMap, by_context |-> EmptyMap]

WStoreIs(ws) == workflows = ws.workflows /\ by_context = ws.by_context

SetWStore(ws) == workflows' = ws.workflows /\ by_context' = ws.by_context

\* dict.get(key, set())
GetSet(map, key) == IF key \in DOMAIN map THEN map[key] ELSE {}

\* dict.pop(key, None) as far as the dict goes
Pop(map, key) == [k \in DOMAIN map \ {key} |-> map[k]]

\* WorkflowStore.upsert_workflow
WorkflowStore_upsert_workflow(ws, workflow) ==
    [workflows  |-> Put(ws.workflows, workflow.workflow_id, workflow),
     by_context |-> Put(ws.by_context, workflow.context_id,
                        GetSet(ws.by_context, workflow.context_id)
                            \cup {workflow.workflow_id})]

\* WorkflowStore.get_workflow
WorkflowStore_get_workflow(ws, w) ==
    IF w \in DOMAIN ws.workflows THEN Some(ws.workflows[w]) ELSE None

\* WorkflowStore.list_workflows(context_id): "self._workflows[w_id]" raises
\* KeyError for an id of the index that the dict lacks.
WorkflowStore_list_workflows(ws, context_id) ==
    IF IsNone(context_id)
    THEN [ok |-> TRUE, err |-> "",
          workflows |-> {ws.workflows[w] : w \in DOMAIN ws.workflows}]
    ELSE LET ids == GetSet(ws.by_context, Val(context_id))
         IN  IF ids \subseteq DOMAIN ws.workflows
             THEN [ok |-> TRUE, err |-> "", workflows |-> {ws.workflows[w] : w \in ids}]
             ELSE [ok |-> FALSE, err |-> "KeyError", workflows |-> {}]

\* WorkflowStore.delete_workflow
WorkflowStore_delete_workflow(ws, w) ==
    IF w \notin DOMAIN ws.workflows THEN [deleted |-> FALSE, ws |-> ws]
    ELSE LET c == ws.workflows[w].context_id
             popped == Pop(ws.workflows, w)
         IN  [deleted |-> TRUE,
              ws |-> [workflows  |-> popped,
                      by_context |->
                          IF c \notin DOMAIN ws.by_context THEN ws.by_context
                          ELSE IF ws.by_context[c] \ {w} = {} THEN Pop(ws.by_context, c)
                          ELSE [ws.by_context EXCEPT ![c] = @ \ {w}]]]

\* ---------------------------------------------------------- WorkflowHandler
\* The payload of upsert_workflow: not a dict, a dict without its
\* workflow_id, a dict whose transition_ids is not a list, or a well-formed
\* one.
WorkflowPayload(shape, w, c, label, tids) ==
    [shape |-> shape, workflow_id |-> w, context_id |-> c, label |-> label,
     transition_ids |-> tids]

WorkflowShapes == {"object", "not_object", "no_workflow_id", "ids_not_list"}

\* Workflow.from_dict
Workflow_from_dict(payload) ==
    IF payload.shape = "object"
    THEN [ok |-> TRUE, err |-> "",
          workflow |-> Workflow(payload.workflow_id, payload.context_id, payload.label,
                                payload.transition_ids)]
    ELSE [ok |-> FALSE, err |-> "WorkflowError", workflow |-> payload]

\* Faulty variant of MissingTransitions: no id is looked up.
MissingTransitions_Unchecked(st, c, tids) == {}

\* The ids of the list that get_transition finds no record for.
MissingTransitions(st, c, tids) ==
    {tids[i] : i \in {j \in DOMAIN tids : IsNone(get_transition(st, c, tids[j]))}}

\* WorkflowHandler.upsert_workflow
WorkflowHandler_upsert_workflow(st, ws, payload) ==
    LET decoded == Workflow_from_dict(payload)
        workflow == decoded.workflow
    IN  IF ~decoded.ok THEN [ok |-> FALSE, err |-> decoded.err, ws |-> ws]
        ELSE IF IsNone(get_context(st, workflow.context_id))
        THEN [ok |-> FALSE, err |-> "WorkflowError", ws |-> ws]
        ELSE IF MissingTransitions(st, workflow.context_id, workflow.transition_ids) # {}
        THEN [ok |-> FALSE, err |-> "WorkflowError", ws |-> ws]
        ELSE [ok |-> TRUE, err |-> "", ws |-> WorkflowStore_upsert_workflow(ws, workflow)]

\* WorkflowHandler.list_workflows(context_id=c)
WorkflowHandler_list_workflows(st, ws, context_id) ==
    IF ~IsNone(context_id) /\ IsNone(get_context(st, Val(context_id)))
    THEN [ok |-> FALSE, err |-> "WorkflowError", workflows |-> {}]
    ELSE WorkflowStore_list_workflows(ws, context_id)

\* What is remembered of the workflow call that completed last.
WorkflowCall(op, st, ws, payload, r) ==
    [op |-> op, payload |-> payload, before |-> ws, graph |-> st, ok |-> r.ok,
     err |-> r.err]

\* A caller of WorkflowHandler.upsert_workflow
UpsertWorkflow(payload) ==
    /\ \E r \in {WorkflowHandler_upsert_workflow(Store, WStore, payload)} :
          /\ SetWStore(r.ws)
          /\ last' = WorkflowCall("upsert_workflow", Store, WStore, payload, r)
    /\ UNCHANGED <<config, storeVars, procs, observed, query, besideWorkflows>>

\* A caller of WorkflowHandler.delete_workflow
DeleteWorkflow(w) ==
    /\ \E r \in {WorkflowStore_delete_workflow(WStore, w)} :
          /\ SetWStore(r.ws)
          /\ last' = [WorkflowCall("delete_workflow", Store, WStore, w,
                                   [ok |-> TRUE, err |-> ""])
                      EXCEPT !.payload = [workflow_id |-> w, deleted |-> r.deleted]]
    /\ UNCHANGED <<config, storeVars, procs, observed, query, besideWorkflows>>

\* A caller of WorkflowHandler.list_workflows
ListWorkflows(context_id) ==
    /\ \E r \in {WorkflowHandler_list_workflows(Store, WStore, context_id)} :
          last' = [WorkflowCall("list_workflows", Store, WStore, context_id, r)
                   EXCEPT !.payload = [context_id |-> context_id, workflows |-> r.workflows]]
    /\ UNCHANGED <<config, storeVars, procs, observed, query, besideVars>>

\* The graphs the workflow calls find: c1 with t1 from A to B, alone or
\* beside c2 with t2 from A to B.
WorkflowGraphs ==
    LET one == upsert_transition(
                   WithStates(upsert_context(EmptyStore, Unlimited, Context("c1", "app")).st,
                              {"A", "B"}),
                   Unlimited, TransitionRecord("c1", "t1", "A", "B", "d0", 1), TRUE).st
        two == upsert_context(one, Unlimited, Context("c2", "app")).st
        sts == upsert_state(upsert_state(two, Unlimited, StateRecord("c2", "A", "d0")).st,
                            Unlimited, StateRecord("c2", "B", "d0")).st
    IN  {one, upsert_transition(sts, Unlimited,
                                TransitionRecord("c2", "t2", "A", "B", "d0", 1), TRUE).st}

InitWorkflow ==
    /\ config = Unlimited
    /\ \E st \in WorkflowGraphs : StoreIs(st)
    /\ procs = << >>
    /\ observed = NoObserved
    /\ last = NoCall
    /\ query = NoQuery
    /\ BesideEmpty

WorkflowIdLists == {<< >>, <<"t1">>, <<"t2">>, <<"t1", "t2">>}

NextWorkflow ==
    \/ \E w \in WorkflowIds, c \in CtxIds, tids \in WorkflowIdLists :
          UpsertWorkflow(WorkflowPayload("object", w, c, "x", tids))
    \/ \E shape \in WorkflowShapes, c \in CtxIds :
          UpsertWorkflow(WorkflowPayload(shape, "w1", c, "y", <<"t1">>))
    \/ \E w \in WorkflowIds : DeleteWorkflow(w)
    \/ \E context_id \in {None} \cup {Some(c) : c \in CtxIds} : ListWorkflows(context_id)

SpecWorkflow == InitWorkflow /\ [][NextWorkflow]_vars

\* ------------------------------------------------------------------ C21
\* C21: WorkflowHandler.upsert_workflow stores the workflow only when its
\* context_id is a stored context and every id of transition_ids is a
\* transition stored under that context; otherwise it fails with
\* WorkflowError and workflows and by_context are as they were.
WorkflowValidated ==
    last.op = "upsert_workflow" =>
        LET p == last.payload
            valid == /\ p.context_id \in DOMAIN last.graph.contexts
                     /\ \A i \in DOMAIN p.transition_ids :
                           p.transition_ids[i] \in DOMAIN last.graph.transitions[p.context_id]
        IN  IF last.ok
            THEN /\ valid
                 /\ p.workflow_id \in DOMAIN workflows
                 /\ workflows[p.workflow_id] =
                        Workflow(p.workflow_id, p.context_id, p.label, p.transition_ids)
            ELSE /\ ~(valid /\ p.shape = "object")
                 /\ last.err = "WorkflowError"
                 /\ WStore = last.before

\* A well-formed workflow naming a transition of the other context has just
\* been refused while w1 was stored, and w1 is as it was.
WorkflowValidated_Witness ==
    /\ last.op = "upsert_workflow" /\ ~last.ok
    /\ last.payload.shape = "object"
    /\ last.payload.context_id = "c1" /\ last.payload.transition_ids = <<"t1", "t2">>
    /\ last.payload.workflow_id = "w1"
    /\ "c2" \in DOMAIN contexts
    /\ "w1" \in DOMAIN workflows /\ workflows["w1"].transition_ids = <<"t1">>

\* ------------------------------------------------------------------ C22
\* C22: after any sequence of upsert_workflow and delete_workflow calls,
\* workflow id w is in by_context[c] exactly when workflows[w] exists with
\* context_id = c; list_workflows(context_id=c) returns exactly the stored
\* workflows whose context_id is c and never fails on an id no longer
\* stored.
ByContextMatchesWorkflows ==
    /\ \A c \in CtxIds, w \in WorkflowIds :
          w \in GetSet(by_context, c) <=>
              (w \in DOMAIN workflows /\ workflows[w].context_id = c)
    /\ (last.op = "list_workflows" /\ ~IsNone(last.payload.context_id)) =>
          IF Val(last.payload.context_id) \notin DOMAIN contexts
          THEN last.err = "WorkflowError"
          ELSE /\ last.ok
               /\ last.payload.workflows =
                     {workflows[w] : w \in {x \in DOMAIN workflows :
                             workflows[x].context_id = Val(last.payload.context_id)}}

\* ------------------------------------------------------- SpecWorkflowThreads
\* WorkflowStore called by two threads: p1 writes, p2 reads.  The class takes
\* no lock, so a call of p2 runs between any two statements of p1.  Every
\* workflow is of context c1.

\* upsert_workflow, first statement: self._workflows[workflow.workflow_id] = workflow
WUpsert_Store(p, workflow) ==
    /\ At(p, "idle")
    /\ workflows' = Put(workflows, workflow.workflow_id, workflow)
    /\ Step(p, "wu_stored", [op |-> "upsert_workflow", before |-> WStore,
                             workflow |-> workflow])
    /\ UNCHANGED <<config, storeVars, observed, last, query, besideWorkflows, by_context>>

\* upsert_workflow, the rest: setdefault(context_id, set()).add(workflow_id)
WUpsert_Index(p) ==
    /\ At(p, "wu_stored")
    /\ LET workflow == procs[p].rec.workflow
       IN  by_context' = Put(by_context, workflow.context_id,
                             GetSet(by_context, workflow.context_id)
                                 \cup {workflow.workflow_id})
    /\ Step(p, "w_done", procs[p].rec)
    /\ UNCHANGED <<config, storeVars, observed, last, query, besideWorkflows, workflows>>

\* delete_workflow, first statement: wf = self._workflows.pop(workflow_id, None);
\* it returns False when there was none.
WDelete_Pop(p, w) ==
    /\ At(p, "idle")
    /\ workflows' = Pop(workflows, w)
    /\ LET found == WorkflowStore_get_workflow(WStore, w)
       IN  Step(p, IF IsNone(found) THEN "w_done" ELSE "wd_popped",
                [op |-> "delete_workflow", before |-> WStore, id |-> w, workflow |-> found])
    /\ UNCHANGED <<config, storeVars, observed, last, query, besideWorkflows, by_context>>

\* delete_workflow, the rest: the id is discarded from the set of its
\* context, and the set is dropped when it is left empty.
WDelete_Discard(p) ==
    /\ At(p, "wd_popped")
    /\ LET wf == Val(procs[p].rec.workflow)
           c == wf.context_id
       IN  by_context' =
               IF c \notin DOMAIN by_context THEN by_context
               ELSE IF by_context[c] \ {wf.workflow_id} = {} THEN Pop(by_context, c)
               ELSE [by_context EXCEPT ![c] = @ \ {wf.workflow_id}]
    /\ Step(p, "w_done", procs[p].rec)
    /\ UNCHANGED <<config, storeVars, observed, last, query, besideWorkflows, workflows>>

\* What a read of the WorkflowStore returns.
WorkflowRead(ws, op, arg) ==
    IF op = "get_workflow"
    THEN [ok |-> TRUE, err |-> "", workflows |-> WorkflowStore_get_workflow(ws, arg)]
    ELSE WorkflowStore_list_workflows(ws, arg)

\* get_workflow(w), list_workflows() or list_workflows(context_id=c) by the
\* reading thread.
WRead(p, op, arg) ==
    /\ At(p, "idle")
    /\ Step(p, "r_done", [op |-> op, arg |-> arg, result |-> WorkflowRead(WStore, op, arg)])
    /\ UNCHANGED <<config, storeVars, observed, last, query, besideVars>>

InitWorkflowThreads ==
    /\ config = Unlimited
    /\ \E st \in WorkflowGraphs : StoreIs(st)
    /\ procs = [p \in Procs |-> Idle]
    /\ observed = NoObserved
    /\ last = NoCall
    /\ query = NoQuery
    /\ \E ids \in SUBSET WorkflowIds, tids \in {<< >>, <<"t1">>} :
          /\ workflows = [w \in ids |-> Workflow(w, "c1", "x", tids)]
          /\ by_context = IF ids = {} THEN EmptyMap ELSE [c \in {"c1"} |-> ids]
    /\ BesideEmptyBut("WorkflowStore")

NextWorkflowThreads ==
    \/ \E w \in WorkflowIds, label \in {"x", "y"}, tids \in {<< >>, <<"t1">>} :
          WUpsert_Store("p1", Workflow(w, "c1", label, tids))
    \/ WUpsert_Index("p1")
    \/ \E w \in WorkflowIds : WDelete_Pop("p1", w)
    \/ WDelete_Discard("p1")
    \/ \E w \in WorkflowIds : WRead("p2", "get_workflow", w)
    \/ \E context_id \in {None, Some("c1")} : WRead("p2", "list_workflows", context_id)

SpecWorkflowThreads == InitWorkflowThreads /\ [][NextWorkflowThreads]_vars

\* The WorkflowStore before the write of thread p1, and after it.
WPreState == IF At("p1", "idle") THEN WStore ELSE procs["p1"].rec.before

WPostState ==
    IF At("p1", "idle") THEN WStore
    ELSE IF procs["p1"].rec.op = "upsert_workflow"
    THEN WorkflowStore_upsert_workflow(WPreState, procs["p1"].rec.workflow)
    ELSE WorkflowStore_delete_workflow(WPreState, procs["p1"].rec.id).ws

\* C23: a list_workflows or get_workflow call running while an
\* upsert_workflow or delete_workflow does never fails because of an
\* intermediate state and never sees one: it returns what it returns on the
\* WorkflowStore before the write or what it returns on the one after it.
\* (A finished write has left the post-state.)
WorkflowReadsSeeWholeWrite ==
    /\ At("p2", "r_done") =>
          LET rec == procs["p2"].rec
          IN  /\ rec.result.ok
              /\ rec.result \in {WorkflowRead(WPreState, rec.op, rec.arg),
                                 WorkflowRead(WPostState, rec.op, rec.arg)}
    /\ At("p1", "w_done") => WStore = WPostState

\* ------------------------------------------------------------- StateTracker
\* A UIState as far as the tracker reads it: its id ("" when not set) and
\* its fingerprints, a dict from fingerprint keys to values.
UIState(id, fingerprints) == [id |-> id, fingerprints |-> fingerprints]

\* fingerprint_map.get(key), "" standing for None as well: both are false.
FingerprintGet(map, key) == IF key \in DOMAIN map THEN map[key] ELSE ""

\* The StateTracker as one value.
Tracker == [states_by_id |-> states_by_id, index_by_key |-> index_by_key]

\* TrackedState(state=state) at time now
TrackedState(state, now) ==
    [state |-> state, first_seen_at |-> now, last_seen_at |-> now, times_seen |-> 1]

\* TrackedState.touch
touch(tracked, now) ==
    [tracked EXCEPT !.times_seen = @ + 1, !.last_seen_at = now]

\* The first key of the list whose fingerprint is non-empty, with its value;
\* the pair <<key, value>> stands for the string "key:value".
RECURSIVE FirstFingerprint(_, _, _)
FirstFingerprint(keys, map, i) ==
    IF i > Len(keys) THEN None
    ELSE IF FingerprintGet(map, keys[i]) # "" THEN Some(<<keys[i], FingerprintGet(map, keys[i])>>)
    ELSE FirstFingerprint(keys, map, i + 1)

\* Faulty variant of _make_dedup_key: the id is preferred to the fingerprints.
_make_dedup_key_IdFirst(cfg, state) ==
    IF cfg.allow_id_fallback /\ state.id # "" THEN Some(<<"id", state.id>>)
    ELSE FirstFingerprint(cfg.prefer_fingerprint_keys, state.fingerprints, 1)

\* StateTracker._make_dedup_key
_make_dedup_key(cfg, state) ==
    LET found == FirstFingerprint(cfg.prefer_fingerprint_keys, state.fingerprints, 1)
    IN  IF ~IsNone(found) THEN found
        ELSE IF cfg.allow_id_fallback /\ state.id # "" THEN Some(<<"id", state.id>>)
        ELSE None

\* The ids uuid4 may draw.
GeneratedIds == {"u1", "u2", "u3", "u4", "u5", "u6"}

\* StateTracker._generate_state_id: an id that no state carries yet.
_generate_state_id(tr) == CHOOSE u \in GeneratedIds : u \notin DOMAIN tr.states_by_id

\* StateTracker.observe_state at time now
observe_state(tr, cfg, given, now) ==
    LET state == IF given.id = "" /\ cfg.auto_generate_ids
                 THEN [given EXCEPT !.id = _generate_state_id(tr)]
                 ELSE given
        dedup_key == _make_dedup_key(cfg, state)
    IN  IF ~IsNone(dedup_key) /\ Val(dedup_key) \in DOMAIN tr.index_by_key
        THEN LET state_id == tr.index_by_key[Val(dedup_key)]
             IN  [state |-> state,
                  tr |-> [tr EXCEPT !.states_by_id[state_id] = touch(@, now)],
                  state_id |-> state_id, is_new |-> FALSE]
        ELSE [state |-> state,
              tr |-> [states_by_id |-> Put(tr.states_by_id, state.id, TrackedState(state, now)),
                      index_by_key |-> IF IsNone(dedup_key) THEN tr.index_by_key
                                       ELSE Put(tr.index_by_key, Val(dedup_key), state.id)],
              state_id |-> state.id, is_new |-> TRUE]

\* A caller of StateTracker.observe_state; the clock shows the number of
\* the call.
ObserveState(given) ==
    /\ Len(calls) < MaxCalls
    /\ \E now \in {Len(calls) + 1} :
       \E r \in {observe_state(Tracker, tracker_config, given, now)} :
          /\ states_by_id' = r.tr.states_by_id
          /\ index_by_key' = r.tr.index_by_key
          /\ calls' = Append(calls, [given |-> given, state |-> r.state, at |-> now,
                                     state_id |-> r.state_id, is_new |-> r.is_new,
                                     tracked |-> Cardinality(DOMAIN r.tr.states_by_id)])
    /\ UNCHANGED <<config, storeVars, procs, observed, last, query, besideTracker,
                   tracker_config>>

\* The states observed: with or without an id, with a structural
\* fingerprint, or without one and with or without a visual one.
ObservedStates ==
    {UIState(id, [structural |-> sf, visual |-> vf]) :
        id \in {"", "g1", "g2"}, sf \in {"", "h1"}, vf \in {"", "v1"}} \cup
    {UIState("g1", [structural |-> "h2", visual |-> ""]), UIState("g1", EmptyMap)}

InitTracker ==
    /\ config = Unlimited
    /\ StoreIs(EmptyStore)
    /\ procs = << >>
    /\ observed = NoObserved
    /\ last = NoCall
    /\ query = NoQuery
    /\ BesideEmptyBut("StateTracker")
    /\ tracker_config \in [prefer_fingerprint_keys :
                               {<<"structural", "visual", "semantic">>, <<"visual">>},
                           allow_id_fallback : BOOLEAN, auto_generate_ids : BOOLEAN]
    /\ states_by_id = EmptyMap
    /\ index_by_key = EmptyMap
    /\ calls = << >>

NextTracker == \E given \in ObservedStates : ObserveState(given)

SpecTracker == InitTracker /\ [][NextTracker]_vars

\* ------------------------------------------------------------------ C24
\* The dedup key of call i as the rule states it: the first configured
\* fingerprint key whose value is non-empty, else the id when the fallback
\* is allowed and the state has one (its own, or the one generated for it).
KeyOfCall(i) ==
    LET fps == calls[i].given.fingerprints
        keys == tracker_config.prefer_fingerprint_keys
        hits == {k \in 1..Len(keys) : keys[k] \in DOMAIN fps /\ fps[keys[k]] # ""}
    IN  IF hits # {}
        THEN LET k == CHOOSE x \in hits : \A y \in hits : x <= y
             IN  Some(<<keys[k], fps[keys[k]]>>)
        ELSE IF tracker_config.allow_id_fallback /\ calls[i].state.id # ""
        THEN Some(<<"id", calls[i].state.id>>)
        ELSE None

\* The earlier calls that had the dedup key of call i.
SeenBefore(i) == {j \in 1..(i - 1) : ~IsNone(KeyOfCall(i)) /\ KeyOfCall(j) = KeyOfCall(i)}

TrackedBefore(i) == IF i = 1 THEN 0 ELSE calls[i - 1].tracked

\* C24: observe_state returns the canonical id registered earlier and
\* is_new = false whenever the state's dedup key has been seen before,
\* whatever the state's own id, and the number of tracked states is then
\* unchanged; when the key has not been seen it registers the state under
\* the state's id and returns is_new = true.
ObserveDeduplicates ==
    calls # << >> =>
        LET i == Len(calls)
            call == calls[i]
        IN  IF SeenBefore(i) # {}
            THEN LET first == CHOOSE j \in SeenBefore(i) : \A k \in SeenBefore(i) : j <= k
                 IN  /\ call.state_id = calls[first].state_id
                     /\ ~call.is_new
                     /\ call.tracked = TrackedBefore(i)
            ELSE /\ call.is_new
                 /\ call.state_id = call.state.id
                 /\ call.state.id \in DOMAIN states_by_id
                 /\ states_by_id[call.state.id].state = call.state

\* A state with id g2 and the structural fingerprint of the state tracked
\* as g1 has just been observed and coalesced.
ObserveDeduplicates_Witness ==
    /\ Len(calls) >= 2
    /\ LET call == calls[Len(calls)]
       IN  /\ call.given.id = "g2" /\ call.state_id = "g1" /\ ~call.is_new
           /\ FingerprintGet(call.given.fingerprints, "structural") = "h1"
           /\ DOMAIN states_by_id = {"g1"}

\* ------------------------------------------------------------------ C25
\* The calls that returned the id.
Returned_(id) == {i \in 1..Len(calls) : calls[i].state_id = id}

\* C25: after any sequence of observe_state calls, for every canonical id
\* the tracker has returned, the TrackedState under that id has times_seen
\* equal to the number of calls that returned the id, and its first_seen_at
\* is that of the registering call.
TimesSeenCountsCalls ==
    \A i \in 1..Len(calls) :
        LET id == calls[i].state_id
        IN  /\ id \in DOMAIN states_by_id
            /\ states_by_id[id].times_seen = Cardinality(Returned_(id))
            /\ \A j \in Returned_(id) :
                  calls[j].is_new => states_by_id[id].first_seen_at = calls[j].at

\* ----------------------------------------------------------------- Exporter
\* A Transition as far as the exporter reads it.
Transition(id, src, tgt) == [id |-> id, source_state_id |-> src, target_state_id |-> tgt]

\* ExporterConfig as far as build_state_records reads it; None stands for
\* an app_id or a list of explicit ids that is not set.
ExporterConfig(app_id, explicit, mark) ==
    [app_id |-> app_id, explicit_entry_state_ids |-> explicit, mark_terminal_states |-> mark]

\* StateTracker.all_tracked
all_tracked(tr) == {tr.states_by_id[id] : id \in DOMAIN tr.states_by_id}

\* Exporter._get_first_tracked_state: min by first_seen_at.  (The clock of
\* the tracker calls is strictly increasing, so the minimum is one state.)
_get_first_tracked_state(tracked_states) ==
    IF tracked_states = {} THEN None
    ELSE Some(CHOOSE ts \in tracked_states :
                 \A other \in tracked_states : ts.first_seen_at <= other.first_seen_at)

\* state.app_id, "" when the state carries none
AppIdOf(state) == IF "app_id" \in DOMAIN state THEN state.app_id ELSE ""

\* Exporter.build_context as far as it can fail: ValueError when app_id is
\* neither configured nor carried by the first tracked state.
build_context(tr, cfg) ==
    LET first_tracked == _get_first_tracked_state(all_tracked(tr))
        inferred == IF IsNone(first_tracked) THEN "" ELSE AppIdOf(Val(first_tracked).state)
        app_id == IF ~IsNone(cfg.app_id) /\ Val(cfg.app_id) # "" THEN Val(cfg.app_id)
                  ELSE inferred
    IN  IF app_id = "" THEN [ok |-> FALSE, err |-> "ValueError", app_id |-> ""]
        ELSE [ok |-> TRUE, err |-> "", app_id |-> app_id]

\* Exporter._compute_outgoing_counts
_compute_outgoing_counts(trs) ==
    LET sources == {trs[i].source_state_id : i \in DOMAIN trs}
    IN  [src \in sources |->
            Cardinality({i \in DOMAIN trs : trs[i].source_state_id = src})]

\* Faulty variant of _determine_entry_state_ids: no fallback to the
\* earliest state.
_determine_entry_state_ids_NoFallback(cfg, tracked_states, trs) ==
    IF ~IsNone(cfg.explicit_entry_state_ids) /\ Val(cfg.explicit_entry_state_ids) # << >>
    THEN {Val(cfg.explicit_entry_state_ids)[i] : i \in DOMAIN Val(cfg.explicit_entry_state_ids)}
    ELSE {ts.state.id : ts \in tracked_states} \ {trs[i].target_state_id : i \in DOMAIN trs}

\* Exporter._determine_entry_state_ids
_determine_entry_state_ids(cfg, tracked_states, trs) ==
    IF ~IsNone(cfg.explicit_entry_state_ids) /\ Val(cfg.explicit_entry_state_ids) # << >>
    THEN {Val(cfg.explicit_entry_state_ids)[i] : i \in DOMAIN Val(cfg.explicit_entry_state_ids)}
    ELSE LET all_ids == {ts.state.id : ts \in tracked_states}
             targets == {trs[i].target_state_id : i \in DOMAIN trs}
             entry_candidates == all_ids \ targets
             first == _get_first_tracked_state(tracked_states)
         IN  IF entry_candidates # {} THEN entry_candidates
             ELSE IF ~IsNone(first) THEN {Val(first).state.id}
             ELSE {}

\* Exporter.build_state_records: per tracked state, the id and the fields
\* of its StateRecord that are derived.
build_state_records(tr, trs, cfg) ==
    LET context == build_context(tr, cfg)
        tracked_states == all_tracked(tr)
        outgoing_counts == _compute_outgoing_counts(trs)
        entry_ids == _determine_entry_state_ids(cfg, tracked_states, trs)
    IN  IF ~context.ok THEN [ok |-> FALSE, err |-> context.err, records |-> {}]
        ELSE [ok |-> TRUE, err |-> "",
              records |->
                {[id |-> tracked.state.id,
                  discovered_at |-> tracked.first_seen_at,
                  is_entry |-> tracked.state.id \in entry_ids,
                  is_terminal |->
                      IF cfg.mark_terminal_states
                      THEN (IF tracked.state.id \in DOMAIN outgoing_counts
                            THEN outgoing_counts[tracked.state.id] ELSE 0) = 0
                      ELSE FALSE] : tracked \in tracked_states}]

\* A caller of Exporter(state_tracker, transitions, config).build_state_records()
BuildStateRecords(trs, cfg) ==
    /\ query.layer = "none"
    /\ query' = [layer |-> "exporter", tracked |-> states_by_id, transitions |-> trs,
                 config |-> cfg] @@ build_state_records(Tracker, trs, cfg)
    /\ UNCHANGED <<config, storeVars, procs, observed, last, besideVars>>

\* The states the explorer observes: A and B of application "app" with a
\* structural fingerprint each, and C without an application id.
ExploredStates ==
    {[app_id |-> "app"] @@ UIState("A", [structural |-> "h1"]),
     [app_id |-> "app"] @@ UIState("B", [structural |-> "h2"]),
     [app_id |-> ""] @@ UIState("C", EmptyMap)}

ExploredEdges ==
    {Transition("t1", "A", "B"), Transition("t2", "B", "A"), Transition("t3", "B", "C"),
     Transition("t4", "C", "C"), Transition("t5", "Z", "A")}

InitExport ==
    /\ config = Unlimited
    /\ StoreIs(EmptyStore)
    /\ procs = << >>
    /\ observed = NoObserved
    /\ last = NoCall
    /\ query = NoQuery
    /\ BesideEmpty

NextExport ==
    \/ \E given \in ExploredStates : query.layer = "none" /\ ObserveState(given)
    \/ \E trs \in SeqsUpTo(ExploredEdges, 2),
          app_id \in {None, Some("app")},
          explicit \in {None, Some(<< >>), Some(<<"B">>), Some(<<"Z">>)},
          mark \in BOOLEAN :
          BuildStateRecords(trs, ExporterConfig(app_id, explicit, mark))

SpecExport == InitExport /\ [][NextExport]_vars

\* ------------------------------------------------------------------ C26
\* The entry states by the rule of priority.
EntryByPriority(tracked, trs, explicit) ==
    LET ids == DOMAIN tracked
        targets == {trs[i].target_state_id : i \in DOMAIN trs}
        earliest == {id \in ids : \A other \in ids :
                        tracked[id].first_seen_at <= tracked[other].first_seen_at}
    IN  IF explicit # {} THEN explicit
        ELSE IF ids \ targets # {} THEN ids \ targets
        ELSE earliest

\* C26: build_state_records sets is_entry on the explicitly configured ids
\* when some are given; otherwise on exactly the tracked states that are
\* the target of no observed transition; otherwise on the earliest tracked
\* state only.  With terminal marking enabled it sets is_terminal on
\* exactly the tracked states that are the source of no observed
\* transition.  With a tracked state and no explicit ids, some record is an
\* entry.
EntryAndTerminalFlags ==
    (query.layer = "exporter" /\ query.ok) =>
        LET trs == query.transitions
            cfg == query.config
            explicit == IF IsNone(cfg.explicit_entry_state_ids) THEN {}
                        ELSE {Val(cfg.explicit_entry_state_ids)[i] :
                                 i \in DOMAIN Val(cfg.explicit_entry_state_ids)}
            sources == {trs[i].source_state_id : i \in DOMAIN trs}
            entries == EntryByPriority(query.tracked, trs, explicit)
        IN  /\ {r.id : r \in query.records} = DOMAIN query.tracked
            /\ Cardinality(query.records) = Cardinality(DOMAIN query.tracked)
            /\ \A r \in query.records :
                  /\ r.is_entry <=> r.id \in entries
                  /\ r.is_terminal <=> (cfg.mark_terminal_states /\ r.id \notin sources)
            /\ (explicit = {} /\ query.tracked # EmptyMap) =>
                  \E r \in query.records : r.is_entry

\* A and B, each the target of a transition, were exported without explicit
\* ids: the earlier of the two is the only entry, and neither is terminal.
EntryAndTerminalFlags_Witness ==
    /\ query.layer = "exporter" /\ query.ok
    /\ DOMAIN query.tracked = {"A", "B"}
    /\ query.transitions = <<Transition("t1", "A", "B"), Transition("t2", "B", "A")>>
    /\ IsNone(query.config.explicit_entry_state_ids) /\ query.config.mark_terminal_states
    /\ query.tracked["B"].first_seen_at < query.tracked["A"].first_seen_at
    /\ \E r \in query.records : r.id = "B" /\ r.is_entry /\ ~r.is_terminal
    /\ \E r \in query.records : r.id = "A" /\ ~r.is_entry /\ ~r.is_terminal

\* ---------------------------------------------------------------------------
\* The vocabulary registries: atlas.schema.ontology (UI roles and patterns)
\* and common.models.intents.  The registries are module globals filled at
\* import with the built-in vocabulary; register_* may be called afterwards.
\*
\* A registered entry is a Python object: two entries built from the same
\* field values are equal (the classes are frozen dataclasses) and still two
\* objects.  The field obj is the object's identity, the other fields are the
\* dataclass's fields.
\* ---------------------------------------------------------------------------

\* UIRole and UIPattern: an OntologyTerm with its id and label.
OntologyTerm(obj, id, label) == [obj |-> obj, id |-> id, label |-> label]

Intent(obj, id, label, synonyms, external_refs) ==
    [obj |-> obj, id |-> id, label |-> label, synonyms |-> synonyms,
     external_refs |-> external_refs]

\* The dataclass's __eq__: field by field, whatever the object.
Fields(entry) == [f \in DOMAIN entry \ {"obj"} |-> entry[f]]
SameEntry(a, b) == Fields(a) = Fields(b)

\* Python's `a is b`.
Is(a, b) == a.obj = b.obj

\* ontology._normalize_id
_normalize_id(identifier) == lower(strip(identifier))

\* " ".join(s.split()) on a stripped string: every run of blanks becomes one.
RECURSIVE JoinSplit(_)
JoinSplit(s) ==
    IF Len(s) < 2 THEN s
    ELSE IF s[1] = " " /\ s[2] = " " THEN JoinSplit(Tail(s))
    ELSE <<s[1]>> \o JoinSplit(Tail(s))

\* intents._normalize
_normalize(s) == JoinSplit(lower(strip(s)))

\* `if key not in index: index[key] = value`
SetDefault(map, key, value) ==
    IF key \in DOMAIN map THEN map ELSE (key :> value) @@ map

\* register_role and register_pattern, on their registry: the registry after
\* the call and whether the call raised ValueError.
register_term(registry, term) ==
    LET key == _normalize_id(term.id) IN
    IF key \in DOMAIN registry /\ ~Is(registry[key], term)
    THEN [ok |-> FALSE, err |-> "ValueError", registry |-> registry]
    ELSE [ok |-> TRUE, err |-> "", registry |-> Put(registry, key, term)]

\* intents._iter_all_names
_iter_all_names(intent) == <<intent.id, intent.label>> \o intent.synonyms

\* The loop over the names of register_intent, from the i-th name on.
RECURSIVE IndexNames(_, _, _, _)
IndexNames(index, intent, names, i) ==
    IF i > Len(names) THEN index
    ELSE IndexNames(SetDefault(index, _normalize(names[i]), intent),
                    intent, names, i + 1)

\* The loop over the external references of register_intent; a dict's items
\* are visited in insertion order, here the order of the sequence.
RECURSIVE IndexExternal(_, _, _, _)
IndexExternal(index, intent, refs, i) ==
    IF i > Len(refs) THEN index
    ELSE IndexExternal(SetDefault(index, refs[i], intent), intent, refs, i + 1)

IntentRegistry(by_id, by_synonym, by_external) ==
    [by_id |-> by_id, by_synonym |-> by_synonym, by_external |-> by_external]

register_intent(reg, intent) ==
    LET key == _normalize(intent.id) IN
    IF key \in DOMAIN reg.by_id /\ ~Is(reg.by_id[key], intent)
    THEN [ok |-> FALSE, err |-> "ValueError", registry |-> reg]
    ELSE [ok |-> TRUE, err |-> "",
          registry |->
              IntentRegistry(
                  Put(reg.by_id, key, intent),
                  IndexNames(reg.by_synonym, intent, _iter_all_names(intent), 1),
                  IndexExternal(reg.by_external, intent, intent.external_refs, 1))]

\* The registries as one value, for the history.
Registries ==
    [roles |-> ui_roles, patterns |-> ui_patterns,
     intents |-> IntentRegistry(intents_by_id, intents_by_synonym,
                                intents_by_external)]

RegistryCall(op, entry, r) ==
    [op |-> op, before |-> Registries, entry |-> entry, ok |-> r.ok,
     err |-> r.err]

RegisterRole(role) ==
    /\ \E r \in {register_term(ui_roles, role)} :
        /\ ui_roles' = r.registry
        /\ last' = RegistryCall("register_role", role, r)
    /\ UNCHANGED <<config, storeVars, procs, observed, query, besideRegistries,
                   ui_patterns, intents_by_id, intents_by_synonym,
                   intents_by_external>>

RegisterPattern(pattern) ==
    /\ \E r \in {register_term(ui_patterns, pattern)} :
        /\ ui_patterns' = r.registry
        /\ last' = RegistryCall("register_pattern", pattern, r)
    /\ UNCHANGED <<config, storeVars, procs, observed, query, besideRegistries,
                   ui_roles, intents_by_id, intents_by_synonym,
                   intents_by_external>>

RegisterIntent(intent) ==
    /\ \E r \in {register_intent(Registries.intents, intent)} :
        /\ intents_by_id' = r.registry.by_id
        /\ intents_by_synonym' = r.registry.by_synonym
        /\ intents_by_external' = r.registry.by_external
        /\ last' = RegistryCall("register_intent", intent, r)
    /\ UNCHANGED <<config, storeVars, procs, observed, query, besideRegistries,
                   ui_roles, ui_patterns>>

\* The built-in vocabulary, one entry of each kind standing for the lists of
\* _register_builtin_roles, _register_builtin_patterns and
\* _register_builtin_intents.
BuiltinRole == OntologyTerm("b1", <<"m">>, "Button")
BuiltinPattern == OntologyTerm("b2", <<"m">>, "Dialog")
BuiltinIntent ==
    Intent("b3", <<"m">>, <<"M">>, << <<"m", "m">> >>, << <<"wd", "Q1">> >>)

\* The entries a caller registers at run time: the built-in object itself, a
\* second object with the same fields, entries whose id differs from a
\* built-in's by case or blanks only, and entries with an id of their own.
CustomTerms(builtin) ==
    { builtin,
      OntologyTerm("o1", builtin.id, builtin.label),
      OntologyTerm("o2", <<"M", " ">>, builtin.label),
      OntologyTerm("o3", builtin.id, "Other"),
      OntologyTerm("o4", <<"M", "m">>, "Other"),
      OntologyTerm("o5", <<"m", "m">>, "Other") }

CustomIntents ==
    { BuiltinIntent,
      Intent("o1", BuiltinIntent.id, BuiltinIntent.label,
             BuiltinIntent.synonyms, BuiltinIntent.external_refs),
      Intent("o2", <<" ", "M">>, <<"M">>, << >>, << >>),
      Intent("o3", <<"m", " ", " ", "M">>, <<"m", "m">>, << <<"m">> >>,
             << <<"wd", "Q1">>, <<"wd", "Q2">> >>),
      Intent("o4", <<"M", " ", "m">>, <<"M">>, << <<"M", "M", "m">> >>,
             << <<"wd", "Q2">> >>),
      Intent("o5", <<"M", "M">>, <<"M", "M", "m">>, << >>, << >>) }

InitRegistry ==
    /\ config = Unlimited
    /\ StoreIs(EmptyStore)
    /\ procs = << >>
    /\ observed = NoObserved
    /\ last = NoCall
    /\ query = NoQuery
    /\ BesideEmptyBut("registries")
    /\ ui_roles = register_term(EmptyMap, BuiltinRole).registry
    /\ ui_patterns = register_term(EmptyMap, BuiltinPattern).registry
    /\ \E r \in {register_intent(IntentRegistry(EmptyMap, EmptyMap, EmptyMap),
                                 BuiltinIntent).registry} :
        /\ intents_by_id = r.by_id
        /\ intents_by_synonym = r.by_synonym
        /\ intents_by_external = r.by_external

NextRegistry ==
    \/ \E role \in CustomTerms(BuiltinRole) : RegisterRole(role)
    \/ \E pattern \in CustomTerms(BuiltinPattern) : RegisterPattern(pattern)
    \/ \E intent \in CustomIntents : RegisterIntent(intent)

SpecRegistry == InitRegistry /\ [][NextRegistry]_vars

\* The registry the last call worked on, before the call and after it, and
\* the key the call's entry is registered under.
RegistryBefore ==
    IF last.op = "register_role" THEN last.before.roles
    ELSE IF last.op = "register_pattern" THEN last.before.patterns
    ELSE last.before.intents.by_id

RegistryKey ==
    IF last.op = "register_intent" THEN _normalize(last.entry.id)
    ELSE _normalize_id(last.entry.id)

\* Every index keeps, under every key it had, the entry it had.
KeepsEntries(before, after) ==
    \A k \in DOMAIN before : k \in DOMAIN after /\ after[k] = before[k]

NothingReplaced ==
    /\ KeepsEntries(last.before.roles, ui_roles)
    /\ KeepsEntries(last.before.patterns, ui_patterns)
    /\ KeepsEntries(last.before.intents.by_id, intents_by_id)
    /\ KeepsEntries(last.before.intents.by_synonym, intents_by_synonym)
    /\ KeepsEntries(last.before.intents.by_external, intents_by_external)

\* C27: a registration under an id that is already registered is accepted and
\* leaves the registries as they were when its entry is identical to the
\* registered one (the same field values), and is rejected with an error and
\* leaves every index as it was when the entry differs; no registration
\* removes or replaces an entry registered earlier.
RegistrationIdempotentOrRejected ==
    last.op \in {"register_role", "register_pattern", "register_intent"} =>
        /\ NothingReplaced
        /\ RegistryKey \in DOMAIN RegistryBefore =>
            IF SameEntry(last.entry, RegistryBefore[RegistryKey])
            THEN last.ok /\ Registries = last.before
            ELSE ~last.ok /\ last.err = "ValueError" /\ Registries = last.before

\* The part of C27 the code keeps: registering the registered object again is
\* accepted and changes nothing, every other registration under a registered
\* id is rejected and changes nothing, and nothing registered is ever replaced.
RegistrationByObject ==
    last.op \in {"register_role", "register_pattern", "register_intent"} =>
        /\ NothingReplaced
        /\ RegistryKey \in DOMAIN RegistryBefore =>
            IF Is(last.entry, RegistryBefore[RegistryKey])
            THEN last.ok /\ Registries = last.before
            ELSE ~last.ok /\ last.err = "ValueError" /\ Registries = last.before

\* An entry equal to the registered one, field by field, was rejected.
EqualEntryRejected ==
    /\ last.op = "register_intent"
    /\ RegistryKey \in DOMAIN RegistryBefore
    /\ SameEntry(last.entry, RegistryBefore[RegistryKey])
    /\ ~last.ok

\* ---------------------------------------------------------------------------
\* atlas.storage.signing: canonical JSON and the HMAC signer.
\*
\* A JSON value is a record of one shape: a string or an integer with the
\* characters of its text, a float NaN, or a dict with its items in
\* insertion order (a Python dict keeps that order and ignores it in ==).
\* ---------------------------------------------------------------------------

JStr(text) == [kind |-> "str", scalar |-> text, items |-> << >>]
JInt(text) == [kind |-> "int", scalar |-> text, items |-> << >>]
JNaN == [kind |-> "nan", scalar |-> << >>, items |-> << >>]
JDict(items) == [kind |-> "dict", scalar |-> << >>, items |-> items]
Item(k, v) == [k |-> k, v |-> v]

\* The keys in use, in the order sort_keys puts them.
KeyOrder == <<"a", "b", "signature">>

Keys(items) == {items[i].k : i \in DOMAIN items}
ItemOf(items, k) == items[CHOOSE i \in DOMAIN items : items[i].k = k]

\* Python's truth value of a JSON value.
Falsy(v) ==
    \/ v.kind = "str" /\ v.scalar = << >>
    \/ v.kind = "int" /\ v.scalar = <<"0">>
    \/ v.kind = "dict" /\ v.items = << >>

\* allow_nan=False: json.dumps raises ValueError on a NaN at any depth.
RECURSIVE HasNaN(_)
HasNaN(v) ==
    \/ v.kind = "nan"
    \/ \E i \in DOMAIN v.items : HasNaN(v.items[i].v)

\* json.dumps(payload, sort_keys=True, separators=(",", ":")): the text as a
\* sequence of tokens; the items of a dict from the i-th key of KeyOrder on.
RECURSIVE Dumps(_)
RECURSIVE DumpsItems(_, _, _)
DumpsItems(items, i, first) ==
    IF i > Len(KeyOrder) THEN << >>
    ELSE IF KeyOrder[i] \notin Keys(items) THEN DumpsItems(items, i + 1, first)
    ELSE (IF first THEN << >> ELSE <<",">>)
         \o <<"\"", KeyOrder[i], "\"", ":">>
         \o Dumps(ItemOf(items, KeyOrder[i]).v)
         \o DumpsItems(items, i + 1, FALSE)

Dumps(v) ==
    IF v.kind = "dict" THEN <<"{">> \o DumpsItems(v.items, 1, TRUE) \o <<"}">>
    ELSE IF v.kind = "str" THEN <<"\"">> \o v.scalar \o <<"\"">>
    ELSE v.scalar

_canonical_json_bytes(payload) ==
    IF HasNaN(payload)
    THEN [ok |-> FALSE, err |-> "ValueError", value |-> << >>]
    ELSE [ok |-> TRUE, err |-> "", value |-> Dumps(payload)]

SignerConfig(secret, algorithm) == [secret |-> secret, algorithm |-> algorithm]

\* hmac.new(key, canon, digestmod).digest(), base64 without padding: a text
\* that two calls share exactly when key, digest and message are the same.
Hmac(signer, canon) == <<"hmac", signer.algorithm, signer.secret>> \o canon

\* Signer.sign, on the items of a dict.
sign(signer, payload) ==
    LET canon == _canonical_json_bytes(JDict(payload)) IN
    IF ~canon.ok THEN [ok |-> FALSE, err |-> canon.err, value |-> JStr(<< >>)]
    ELSE [ok |-> TRUE, err |-> "", value |-> JStr(Hmac(signer, canon.value))]

\* Signer.verify; hmac.compare_digest raises TypeError on a signature that is
\* not a string.
verify(signer, payload, signature) ==
    IF Falsy(signature) THEN [ok |-> TRUE, err |-> "", value |-> FALSE]
    ELSE LET expected == sign(signer, payload) IN
         IF ~expected.ok
         THEN [ok |-> FALSE, err |-> expected.err, value |-> FALSE]
         ELSE IF signature.kind # "str"
         THEN [ok |-> FALSE, err |-> "TypeError", value |-> FALSE]
         ELSE [ok |-> TRUE, err |-> "", value |-> expected.value = signature]

\* Faulty variant of DictPop: the field stays in the payload.
DictPop_Kept(items, field) == items

\* payload = dict(record); payload.pop(field, None)
DictPop(items, field) == SelectSeq(items, LAMBDA it : it.k # field)

\* Signer.sign_record
sign_record(signer, record, field) ==
    LET payload == DictPop(record, field)
        sig == sign(signer, payload)
    IN IF ~sig.ok THEN [ok |-> FALSE, err |-> sig.err, value |-> << >>]
       ELSE [ok |-> TRUE, err |-> "",
             value |-> Append(payload, Item(field, sig.value))]

\* Signer.verify_record
verify_record(signer, record, field) ==
    IF field \notin Keys(record) THEN [ok |-> TRUE, err |-> "", value |-> FALSE]
    ELSE verify(signer, DictPop(record, field), ItemOf(record, field).v)

\* Python's == on dicts: the same keys with equal values, at every depth.
RECURSIVE SortedItems(_, _)
RECURSIVE SortedValue(_)
SortedItems(items, i) ==
    IF i > Len(KeyOrder) THEN << >>
    ELSE IF KeyOrder[i] \notin Keys(items) THEN SortedItems(items, i + 1)
    ELSE <<Item(KeyOrder[i], SortedValue(ItemOf(items, KeyOrder[i]).v))>>
         \o SortedItems(items, i + 1)

SortedValue(v) ==
    IF v.kind = "dict" THEN JDict(SortedItems(v.items, 1)) ELSE v

DictEq(a, b) == SortedItems(a, 1) = SortedItems(b, 1)

\* The signers and the records of the calls: records that differ in key order
\* only, at the top and inside a value, a record with a NaN, and records that
\* already carry something under the signature field.
Signers == {SignerConfig("s1", "sha256"), SignerConfig("s2", "sha512")}

SignatureField == "signature"

PlainRecords ==
    { << >>,
      <<Item("a", JInt(<<"1">>))>>,
      <<Item("a", JInt(<<"1">>)), Item("b", JStr(<<"x">>))>>,
      <<Item("b", JStr(<<"x">>)), Item("a", JInt(<<"1">>))>>,
      <<Item("a", JDict(<<Item("a", JInt(<<"1">>)), Item("b", JInt(<<"2">>))>>))>>,
      <<Item("a", JDict(<<Item("b", JInt(<<"2">>)), Item("a", JInt(<<"1">>))>>))>>,
      <<Item("a", JNaN)>>,
      <<Item("signature", JStr(<<"x">>)), Item("a", JInt(<<"1">>))>>,
      <<Item("a", JInt(<<"1">>)), Item("signature", JStr(<< >>))>>,
      <<Item("b", JInt(<<"2">>)), Item("signature", JInt(<<"7">>))>> }

\* The sign_record call in the history, if the last call was one that returned.
Signed == last.op = "sign_record" /\ last.ok

\* What a caller has at hand: the plain records and the record the last
\* sign_record call returned.
RecordsAtHand ==
    PlainRecords \cup (IF Signed THEN {last.value} ELSE {})

SignerCall(op, signer, record, r) ==
    [op |-> op, signer |-> signer, record |-> record,
     ok |-> r.ok, err |-> r.err, value |-> r.value]

\* One call of sign_record or verify_record.  The call before it stays in
\* the history (query.prev), with whether this call's record is the value
\* that call returned.
SignerStep(call, chained) ==
    /\ last' = call
    /\ query' = [layer |-> "signer", prev |-> last, chained |-> chained]
    /\ UNCHANGED <<config, storeVars, procs, observed, besideVars>>

SignRecord(signer, record) ==
    SignerStep(SignerCall("sign_record", signer, record,
                          sign_record(signer, record, SignatureField)),
               Signed /\ record = last.value)

VerifyRecord(signer, record) ==
    SignerStep(SignerCall("verify_record", signer, record,
                          verify_record(signer, record, SignatureField)),
               Signed /\ record = last.value)

InitSigner ==
    /\ config = Unlimited
    /\ StoreIs(EmptyStore)
    /\ procs = << >>
    /\ observed = NoObserved
    /\ last = NoCall
    /\ query = NoQuery
    /\ BesideEmpty

NextSigner ==
    \E signer \in Signers, record \in RecordsAtHand :
        \/ SignRecord(signer, record)
        \/ VerifyRecord(signer, record)

SpecSigner == InitSigner /\ [][NextSigner]_vars

\* The call before the last one was a sign_record call that returned.
AfterSigned ==
    /\ query.layer = "signer"
    /\ query.prev.op = "sign_record"
    /\ query.prev.ok

SignatureOf(record) == ItemOf(record, SignatureField).v

\* C28: verify_record of what sign_record returned, by the same signer, is
\* true; sign_record of what sign_record returned is that record again; two
\* records that differ in key order only get the same signature; and
\* verify_record of a record without the signature field returns false and
\* does not raise.  (sign_record itself raises on a record json.dumps
\* refuses, a NaN; the relations are about the records it signs.)
SignRoundTrip ==
    /\ (/\ last.op = "verify_record"
        /\ AfterSigned
        /\ query.chained
        /\ last.signer = query.prev.signer)
       => last.ok /\ last.value = TRUE
    /\ (/\ Signed
        /\ AfterSigned
        /\ query.chained
        /\ last.signer = query.prev.signer)
       => DictEq(last.value, last.record)
    /\ (/\ Signed
        /\ AfterSigned
        /\ last.signer = query.prev.signer
        /\ DictEq(DictPop(last.record, SignatureField),
                  DictPop(query.prev.record, SignatureField)))
       => SignatureOf(last.value) = SignatureOf(query.prev.value)
    /\ (/\ last.op = "verify_record"
        /\ SignatureField \notin Keys(last.record))
       => last.ok /\ last.value = FALSE

\* A record whose keys were inserted in another order than those of the
\* record signed before it was signed, and then verified.
SignRoundTrip_Witness ==
    /\ last.op = "verify_record"
    /\ AfterSigned
    /\ query.chained
    /\ last.signer = query.prev.signer
    /\ last.value = TRUE
    /\ Len(query.prev.record) = 2
    /\ query.prev.record[1].k = "b"

\* ---------------------------------------------------------------------------
\* to_dict and from_dict of Context, StateRecord and TransitionRecord, with
\* every field of the dataclasses.  An Optional field is a set (None = {}),
\* a dict a set of <<key, value>> pairs, a list a sequence; to_dict's result
\* is the record of its keys.  A timestamp is a string; Clock is what
\* datetime.utcnow() reads when from_dict runs.
\* ---------------------------------------------------------------------------

\* `value or default`, for a value of the type whose false value is empty.
Or(value, empty, default) == IF value = empty THEN default ELSE value

\* Context.to_dict
Context_to_dict(x) ==
    [context_id |-> x.context_id, app_id |-> x.app_id, version |-> x.version,
     platform |-> x.platform, locale |-> x.locale,
     schema_version |-> x.schema_version, created_at |-> x.created_at,
     environment |-> x.environment, metadata |-> x.metadata]

\* Context.from_dict, every field.
Context_from_dict_Whole(data, now) ==
    [context_id |-> data.context_id, app_id |-> data.app_id,
     version |-> data.version, platform |-> data.platform,
     locale |-> data.locale, schema_version |-> data.schema_version,
     created_at |-> Or(data.created_at, "", now),
     environment |-> Or(data.environment, {}, {}),
     metadata |-> Or(data.metadata, {}, {})]

\* InteractiveElement.to_dict: asdict, the bounding box as a dict of its four
\* sides.
InteractiveElement_to_dict(el) ==
    [id |-> el.id, role |-> el.role, label |-> el.label,
     bounding_box |-> el.bounding_box, path |-> el.path,
     enabled |-> el.enabled, visible |-> el.visible, metadata |-> el.metadata]

\* UIState.to_dict
UIState_to_dict(x) ==
    [id |-> x.id, app_id |-> x.app_id, version |-> x.version,
     platform |-> x.platform, locale |-> x.locale,
     fingerprints |-> x.fingerprints, screenshot_ref |-> x.screenshot_ref,
     interactive_elements |->
         [i \in DOMAIN x.interactive_elements |->
             InteractiveElement_to_dict(x.interactive_elements[i])],
     metadata |-> x.metadata]

\* StateRecord.to_dict
StateRecord_to_dict(x) ==
    [context_id |-> x.context_id, discovered_at |-> x.discovered_at,
     is_entry |-> x.is_entry, is_terminal |-> x.is_terminal,
     tags |-> x.tags, metadata |-> x.metadata,
     state |-> UIState_to_dict(x.state)]

\* The loop of StateRecord.from_dict that rebuilds one InteractiveElement.
InteractiveElement_from_dict(el) ==
    [id |-> el.id, role |-> el.role, label |-> el.label,
     bounding_box |-> el.bounding_box, path |-> el.path,
     enabled |-> el.enabled, visible |-> el.visible,
     metadata |-> Or(el.metadata, {}, {})]

\* StateRecord.from_dict, every field.
StateRecord_from_dict_Whole(data, now) ==
    LET state_dict == data.state
        elements_data == Or(state_dict.interactive_elements, << >>, << >>)
    IN [context_id |-> data.context_id,
        discovered_at |-> Or(data.discovered_at, "", now),
        is_entry |-> data.is_entry, is_terminal |-> data.is_terminal,
        tags |-> Or(data.tags, << >>, << >>),
        metadata |-> Or(data.metadata, {}, {}),
        state |->
            [id |-> state_dict.id, app_id |-> state_dict.app_id,
             version |-> state_dict.version, platform |-> state_dict.platform,
             locale |-> state_dict.locale,
             fingerprints |-> Or(state_dict.fingerprints, {}, {}),
             screenshot_ref |-> state_dict.screenshot_ref,
             interactive_elements |->
                 [i \in DOMAIN elements_data |->
                     InteractiveElement_from_dict(elements_data[i])],
             metadata |-> Or(state_dict.metadata, {}, {})]]

\* Action.to_dict and Transition.to_dict
Action_to_dict(a) ==
    [type |-> a.type, element_id |-> a.element_id, raw_input |-> a.raw_input,
     metadata |-> a.metadata]

Transition_to_dict(x) ==
    [id |-> x.id, source_state_id |-> x.source_state_id,
     target_state_id |-> x.target_state_id, action |-> Action_to_dict(x.action),
     intent_id |-> x.intent_id, confidence |-> x.confidence,
     metadata |-> x.metadata]

\* TransitionRecord.to_dict
TransitionRecord_to_dict(x) ==
    [context_id |-> x.context_id, discovered_at |-> x.discovered_at,
     times_observed |-> x.times_observed, metadata |-> x.metadata,
     transition |-> Transition_to_dict(x.transition)]

\* TransitionRecord.from_dict, every field.
TransitionRecord_from_dict_Whole(data, now) ==
    LET tr_dict == data.transition
        action_dict == tr_dict.action
    IN [context_id |-> data.context_id,
        discovered_at |-> Or(data.discovered_at, "", now),
        times_observed |-> data.times_observed,
        metadata |-> Or(data.metadata, {}, {}),
        transition |->
            [id |-> tr_dict.id, source_state_id |-> tr_dict.source_state_id,
             target_state_id |-> tr_dict.target_state_id,
             action |-> [type |-> action_dict.type,
                         element_id |-> action_dict.element_id,
                         raw_input |-> action_dict.raw_input,
                         metadata |-> Or(action_dict.metadata, {}, {})],
             intent_id |-> tr_dict.intent_id,
             confidence |-> tr_dict.confidence,
             metadata |-> Or(tr_dict.metadata, {}, {})]]

\* The field values of the objects: every Optional absent, empty and set,
\* every string empty and not, every collection empty and not.
Clock == "2026-01-01T00:00:00Z"
Timestamps == {"", "2024-05-01T10:00:00Z"}
OptionalStrings == {None, Some(""), Some("v")}
Dicts == {{}, {<<"k", "v">>}}
Platforms == {"web", "other"}
ActionTypes == {"click", "other"}

Contexts ==
    [context_id : {"c1"}, app_id : {"app"}, version : OptionalStrings,
     platform : Platforms, locale : {None, Some("en-US")},
     schema_version : {"1.0.0", ""}, created_at : Timestamps,
     environment : Dicts, metadata : {{}}]

BoundingBox == [x |-> 0, y |-> 1, width |-> 2, height |-> 3]

InteractiveElements ==
    [id : {"e1"}, role : {"button"}, label : {None, Some("")},
     bounding_box : {None, Some(BoundingBox)}, path : {None},
     enabled : BOOLEAN, visible : {TRUE}, metadata : {{}}]

UIStates ==
    [id : {"s1"}, app_id : {"app"}, version : {None, Some("")},
     platform : Platforms, locale : {None}, fingerprints : Dicts,
     screenshot_ref : {None},
     interactive_elements : {<< >>} \cup {<<el>> : el \in InteractiveElements},
     metadata : {{}}]

StateRecords ==
    [context_id : {"c1"}, discovered_at : Timestamps, is_entry : BOOLEAN,
     is_terminal : {FALSE}, tags : {<< >>, <<"menu">>},
     metadata : Dicts, state : UIStates]

Transitions ==
    [id : {"t1"}, source_state_id : {"s1"}, target_state_id : {"s2"},
     action : [type : ActionTypes, element_id : {None, Some("e1")},
               raw_input : {None, Some("")}, metadata : Dicts],
     intent_id : {None, Some("save")}, confidence : {0, 1}, metadata : {{}}]

TransitionRecords ==
    [context_id : {"c1"}, discovered_at : Timestamps, times_observed : {-1, 0, 1, 2},
     metadata : Dicts, transition : Transitions]

\* from_dict(to_dict(x)): what went in, the dict, and what came back.
RoundTrip(class, x, data, back) ==
    /\ last.op = "none"
    /\ last' = [op |-> "round_trip", class |-> class, x |-> x, data |-> data,
                back |-> back]
    /\ UNCHANGED <<config, storeVars, procs, observed, query, besideVars>>

ContextRoundTrip(x) ==
    RoundTrip("Context", x, Context_to_dict(x),
              Context_from_dict_Whole(Context_to_dict(x), Clock))

StateRecordRoundTrip(x) ==
    RoundTrip("StateRecord", x, StateRecord_to_dict(x),
              StateRecord_from_dict_Whole(StateRecord_to_dict(x), Clock))

TransitionRecordRoundTrip(x) ==
    RoundTrip("TransitionRecord", x, TransitionRecord_to_dict(x),
              TransitionRecord_from_dict_Whole(TransitionRecord_to_dict(x), Clock))

NextRoundTrip ==
    \/ \E x \in Contexts : ContextRoundTrip(x)
    \/ \E x \in StateRecords : StateRecordRoundTrip(x)
    \/ \E x \in TransitionRecords : TransitionRecordRoundTrip(x)

InitRoundTrip == InitSigner

SpecRoundTrip == InitRoundTrip /\ [][NextRoundTrip]_vars

\* The object's own timestamp, and the object with another one.
TimestampOf(class, x) ==
    IF class = "Context" THEN x.created_at ELSE x.discovered_at

WithTimestamp(class, x, at) ==
    IF class = "Context" THEN [x EXCEPT !.created_at = at]
    ELSE [x EXCEPT !.discovered_at = at]

\* C29: from_dict(to_dict(x)) equals x for every Context, StateRecord and
\* TransitionRecord x, whatever its field values: absent optional fields,
\* empty strings, an empty discovered_at or created_at included, empty
\* collections, any times_observed, any platform and action type.
RoundTripIsIdentity ==
    last.op = "round_trip" => last.back = last.x

\* What the code keeps of C29: the round trip gives x back when x's timestamp
\* is not the empty string, and changes nothing but the timestamp otherwise.
RoundTripButEmptyTimestamp ==
    last.op = "round_trip" =>
        IF TimestampOf(last.class, last.x) # "" THEN last.back = last.x
        ELSE last.back = WithTimestamp(last.class, last.x, Clock)

\* A record whose discovered_at is the empty string came back with the
\* clock's reading.
EmptyTimestampReplaced ==
    /\ last.op = "round_trip"
    /\ last.class = "TransitionRecord"
    /\ last.x.discovered_at = ""
    /\ last.back.discovered_at = Clock

\* ---------------------------------------------------------------------------
\* atlas.api.auth and the HTTP verbs of atlas.api.http_server.
\*
\* A header is a name and a value, both sequences of characters; the headers
\* of a request are a sequence of headers.  An AuthConfig's api_keys is the
\* set of its keys (the Principal of a key plays no part in the verbs).
\* ---------------------------------------------------------------------------

AuthConfig(api_keys, header_name, optional) ==
    [api_keys |-> api_keys, header_name |-> header_name, optional |-> optional]

Header(name, value) == [name |-> name, value |-> value]

\* Authenticator._extract_api_key, from the i-th header on: the stripped value
\* of the first header of that name whose value is not blank.
RECURSIVE ExtractFrom(_, _, _)
ExtractFrom(cfg, headers, i) ==
    IF i > Len(headers) THEN None
    ELSE IF /\ lower(headers[i].name) = lower(cfg.header_name)
            /\ strip(headers[i].value) # << >>
    THEN Some(strip(headers[i].value))
    ELSE ExtractFrom(cfg, headers, i + 1)

_extract_api_key(cfg, headers) == ExtractFrom(cfg, headers, 1)

\* Authenticator.authenticate: the principal (here its key), None when no key
\* came and auth is optional, or AuthError.
authenticate(cfg, headers) ==
    LET key == _extract_api_key(cfg, headers) IN
    IF IsNone(key)
    THEN IF cfg.optional THEN [ok |-> TRUE, err |-> "", principal |-> None]
         ELSE [ok |-> FALSE, err |-> "AuthError", principal |-> None]
    ELSE IF Val(key) \notin cfg.api_keys
    THEN [ok |-> FALSE, err |-> "AuthError", principal |-> None]
    ELSE [ok |-> TRUE, err |-> "", principal |-> key]

\* Faulty variant of require_auth: a missing principal is let through.
require_auth_Lenient(cfg, headers) == authenticate(cfg, headers)

\* Authenticator.require_auth
require_auth(cfg, headers) ==
    LET r == authenticate(cfg, headers) IN
    IF r.ok /\ IsNone(r.principal)
    THEN [ok |-> FALSE, err |-> "AuthError", principal |-> None]
    ELSE r

\* AtlasRequestHandler._auth
_auth(auth, headers) ==
    IF IsNone(auth) THEN [ok |-> TRUE, err |-> ""]
    ELSE LET r == require_auth(Val(auth), headers)
         IN  [ok |-> r.ok, err |-> r.err]

\* What a verb leaves behind: the status sent, the handler that ran ("none"
\* when none did) and the store.
Response(status, handler, st) == [status |-> status, handler |-> handler, st |-> st]

\* AtlasRequestHandler._handle_get, on the parts of the path.
_handle_get(st, path) ==
    IF path = <<"health">> THEN Response(200, "health.health", st)
    ELSE IF path = <<"contexts">> THEN Response(200, "query.list_contexts", st)
    ELSE IF Len(path) = 2 /\ path[1] = "contexts"
    THEN IF IsNone(get_context(st, path[2]))
         THEN Response(404, "query.get_context", st)
         ELSE Response(200, "query.get_context", st)
    ELSE Response(404, "none", st)

\* AtlasRequestHandler._handle_post; IngestError and ValueError are sent as
\* 400, any other exception as 500.
_handle_post(st, cfg, path, payload) ==
    IF path \notin {<<"ingest", "context">>, <<"ingest", "state">>}
    THEN Response(404, "none", st)
    ELSE LET r == IF path = <<"ingest", "context">>
                  THEN ingest_context(st, cfg, payload, TRUE)
                  ELSE ingest_state_record(st, cfg, payload, 0)
             handler == IF path = <<"ingest", "context">>
                        THEN "ingest.ingest_context"
                        ELSE "ingest.ingest_state_record"
         IN  IF r.ok THEN Response(200, handler, r.st)
             ELSE IF r.err = "IngestError" THEN Response(400, handler, r.st)
             ELSE Response(500, handler, r.st)

\* do_GET and do_POST: _auth first, AuthError sent as 401.
do_GET(auth, st, headers, path) ==
    IF ~_auth(auth, headers).ok THEN Response(401, "none", st)
    ELSE _handle_get(st, path)

do_POST(auth, st, cfg, headers, path, payload) ==
    IF ~_auth(auth, headers).ok THEN Response(401, "none", st)
    ELSE _handle_post(st, cfg, path, payload)

HttpCall(verb, headers, path, r) ==
    [op |-> verb, before |-> Store, path |-> path, headers |-> headers,
     status |-> r.status, handler |-> r.handler]

DoGet(headers, path) ==
    /\ \E r \in {do_GET(authenticator, Store, headers, path)} :
        /\ SetStore(r.st)
        /\ last' = HttpCall("do_GET", headers, path, r)
    /\ UNCHANGED <<config, procs, observed, query, besideVars>>

DoPost(headers, path, payload) ==
    /\ \E r \in {do_POST(authenticator, Store, config, headers, path, payload)} :
        /\ SetStore(r.st)
        /\ last' = HttpCall("do_POST", headers, path, r)
    /\ UNCHANGED <<config, procs, observed, query, besideVars>>

\* The server's API key, the header it is read from, and what requests send:
\* no header, the header under names that differ in case, another header,
\* values that are blank, the key, the key between blanks, and unknown keys.
ApiKey == <<"m">>
ApiKeyHeader == <<"M", "m">>
HeaderNames == {<<"M", "m">>, <<"m", "m">>, <<"m">>}
HeaderValues ==
    {<< >>, <<" ">>, <<"m">>, <<" ", "m">>, <<"M">>, <<"M", "m">>, <<"m", " ", "m">>}

RequestHeaders ==
    {<< >>}
    \cup {<<Header(n, v)>> : n \in HeaderNames, v \in HeaderValues}
    \cup {<<Header(ApiKeyHeader, <<" ">>), Header(ApiKeyHeader, v)>> :
              v \in {<<"m">>, <<"M">>}}

AuthConfigs ==
    {None} \cup {Some(AuthConfig(keys, ApiKeyHeader, optional)) :
                     keys \in {{}, {ApiKey}}, optional \in BOOLEAN}

GetPaths == {<<"health">>, <<"contexts">>, <<"contexts", "c1">>, <<"states">>}

PostRequests ==
    {[payload |-> ContextPayload("object", c, "app"), path |-> <<"ingest", "context">>] :
         c \in CtxIds}
    \cup {[payload |-> ContextPayload("not_object", "c1", "app"),
           path |-> <<"ingest", "context">>],
          [payload |-> StatePayload("object", "c1", "A", None),
           path |-> <<"ingest", "state">>],
          [payload |-> ContextPayload("object", "c1", "app"), path |-> <<"ingest">>]}

InitHttp ==
    /\ config = Unlimited
    /\ StoreIs(EmptyStore)
    /\ procs = << >>
    /\ observed = NoObserved
    /\ last = NoCall
    /\ query = NoQuery
    /\ BesideEmptyBut("AtlasApp")
    /\ authenticator \in AuthConfigs

NextHttp ==
    \E headers \in RequestHeaders :
        \/ \E path \in GetPaths : DoGet(headers, path)
        \/ \E req \in PostRequests : DoPost(headers, req.path, req.payload)

SpecHttp == InitHttp /\ [][NextHttp]_vars

\* The request carries the API key of a principal: some header of the
\* configured name (in any case) holds, between blanks, a key of api_keys.
CarriesKnownKey(cfg, headers) ==
    \E i \in DOMAIN headers :
        /\ lower(headers[i].name) = lower(cfg.header_name)
        /\ strip(headers[i].value) \in cfg.api_keys

\* C30: with an authenticator configured, a GET or POST request that carries
\* no API key or an unknown one is answered 401 before any routing: no query
\* or ingest handler ran and the store is what it was, whether or not
\* AuthConfig.optional is true.
UnauthenticatedRefused ==
    (/\ last.op \in {"do_GET", "do_POST"}
     /\ ~IsNone(authenticator)
     /\ ~CarriesKnownKey(Val(authenticator), last.headers))
    => /\ last.status = 401
       /\ last.handler = "none"
       /\ Store = last.before

\* A POST without key to an ingest route was refused by an authenticator
\* whose config is optional, on a store that earlier requests had filled.
UnauthenticatedRefused_Witness ==
    /\ last.op = "do_POST"
    /\ ~IsNone(authenticator)
    /\ Val(authenticator).optional
    /\ last.headers = << >>
    /\ last.path = <<"ingest", "context">>
    /\ last.status = 401
    /\ "c1" \in DOMAIN contexts

\* ---------------------------------------------------------- SpecDiscovered
\* One caller thread that writes states A and B and transition t1 of
\* c1 again and again, through the store's upserts with either stamp and
\* through the handler with a payload that carries a discovered_at or none,
\* in which case from_dict takes the clock's reading.  The context is
\* stored from the start.
DiscoveredPayloadStamps == {None, Some("d0")}
DiscoveredClock == "d1"

InitDiscovered ==
    /\ config = Unlimited
    /\ StoreIs(upsert_context(EmptyStore, Unlimited, Context("c1", "app")).st)
    /\ procs = [p \in Procs |-> Idle]
    /\ observed = NoObserved
    /\ last = NoCall
    /\ query = NoQuery
    /\ BesideEmpty

NextDiscovered ==
    \/ \E s \in {"A", "B"}, at \in Stamps : At("p1", "idle") /\ UpsertState("c1", s, at)
    \/ \E t \in {"t1"}, at \in Stamps, inc \in BOOLEAN :
          At("p1", "idle") /\ UpsertTransition("c1", t, "A", "B", at, 1, inc)
    \/ \E s \in {"A", "B"}, at \in DiscoveredPayloadStamps :
          IngestState_Check("p1", StatePayload("object", "c1", s, at), DiscoveredClock)
    \/ IngestState_Upsert("p1")
    \/ \E t \in {"t1"}, at \in DiscoveredPayloadStamps :
          IngestTransition_Check(
              "p1", TransitionPayload("object", "c1", t, "A", "B", at, None),
              DiscoveredClock)
    \/ IngestTransition_Source("p1")
    \/ IngestTransition_Target("p1")
    \/ IngestTransition_Upsert("p1")

SpecDiscovered == InitDiscovered /\ [][NextDiscovered]_vars

\* C31: a successful upsert_state, upsert_transition, ingest_state_record
\* or ingest_transition_record of an id that is already stored leaves the
\* stored discovered_at of that id as it was.
DiscoveredAtKept ==
    [][(last'.ok /\ last'.existed) =>
          /\ last'.op \in {"upsert_state", "ingest_state_record"} =>
                (last'.id \in DOMAIN states[last'.ctx] =>
                    states'[last'.ctx][last'.id].discovered_at =
                        states[last'.ctx][last'.id].discovered_at)
          /\ last'.op \in {"upsert_transition", "ingest_transition_record"} =>
                (last'.id \in DOMAIN transitions[last'.ctx] =>
                    transitions'[last'.ctx][last'.id].discovered_at =
                        transitions[last'.ctx][last'.id].discovered_at)]_vars

\* What the store does keep of a re-written transition: its counter, one
\* above the stored one when the caller asked to increment.
DiscoveredCounterKept ==
    [][(/\ last'.ok /\ last'.existed /\ last'.inc
        /\ last'.op \in {"upsert_transition", "ingest_transition_record"}
        /\ last'.id \in DOMAIN transitions[last'.ctx]
        /\ transitions' # transitions) =>
          transitions'[last'.ctx][last'.id].times_observed =
              transitions[last'.ctx][last'.id].times_observed + 1]_vars

\* A state first stored with d0 carries d1 after it was ingested again
\* without a discovered_at, and a transition likewise.
DiscoveredAtReplaced ==
    /\ last.op = "ingest_transition_record" /\ last.ok /\ last.existed
    /\ transitions["c1"][last.id].discovered_at = DiscoveredClock
    /\ "A" \in DOMAIN states["c1"] /\ states["c1"]["A"].discovered_at = "d1"

\* ------------------------------------------------------------------ C32
\* GraphStore._lock, taken by every operation in a "with self._lock:" block.
\* Faulty variant of RLock_CanAcquire: a threading.Lock, which also blocks
\* the thread that holds it.
RLock_CanAcquire_Plain(lk, p) == IsNone(lk.owner)

\* threading.RLock: free, or owned by the calling thread itself.
RLock_CanAcquire(lk, p) == IsNone(lk.owner) \/ lk.owner = Some(p)

\* Entering a with block.
RLock_acquire(lk, p) == [count |-> lk.count + 1, owner |-> Some(p)]

\* Leaving a with block, by return or by exception.
RLock_release(lk, p) ==
    IF lk.count = 1 THEN Unlocked ELSE [count |-> lk.count - 1, owner |-> lk.owner]

\* add_context's own test, made under the lock before it calls upsert_context.
add_context_Refused(st, ctx, overwrite) ==
    ~overwrite /\ ctx.context_id \in DOMAIN st.contexts

LockedOps == {"add_context", "upsert_context", "get_context"}
LockedCall(op, ctx, overwrite) ==
    [op |-> op, context |-> ctx, err |-> "", overwrite |-> overwrite]

\* A thread calls an operation of the store.
Lock_Call(p, op, c, overwrite) ==
    /\ At(p, "idle")
    /\ Goto(p, "lk_wait", LockedCall(op, Context(c, "app"), overwrite))
    /\ UNCHANGED <<config, storeVars, observed, last, query, besideVars>>

\* "with self._lock:" of the operation called.
Lock_Enter(p) ==
    /\ At(p, "lk_wait")
    /\ RLock_CanAcquire(lock, p)
    /\ lock' = RLock_acquire(lock, p)
    /\ Goto(p, "lk_in", procs[p].rec)
    /\ UNCHANGED <<config, storeVars, observed, last, query, besideLock>>

\* The body of upsert_context or get_context under the lock.
Lock_Body(p) ==
    /\ At(p, "lk_in")
    /\ procs[p].rec.op # "add_context"
    /\ \E rec \in {procs[p].rec}, st \in {Store} :
       \E r \in {IF rec.op = "upsert_context"
                 THEN upsert_context(st, config, rec.context)
                 ELSE Done(st)} :
          /\ SetStore(r.st)
          /\ last' = ContextCall(rec.op, st, rec.context, r)
          /\ Goto(p, "lk_exit", [rec EXCEPT !.err = r.err])
    /\ UNCHANGED <<config, observed, query, besideVars>>

\* The body of add_context up to its call of upsert_context.
Lock_AddBody(p) ==
    /\ At(p, "lk_in")
    /\ procs[p].rec.op = "add_context"
    /\ \E rec \in {procs[p].rec}, st \in {Store} :
          IF add_context_Refused(st, rec.context, rec.overwrite)
          THEN /\ last' = ContextCall(rec.op, st, rec.context, Raise("ValueError", st))
               /\ Goto(p, "lk_exit", [rec EXCEPT !.err = "ValueError"])
          ELSE /\ last' = last
               /\ Goto(p, "lk_inner_wait", rec)
    /\ UNCHANGED <<config, storeVars, observed, query, besideVars>>

\* "with self._lock:" of upsert_context, called by add_context.
Lock_InnerEnter(p) ==
    /\ At(p, "lk_inner_wait")
    /\ RLock_CanAcquire(lock, p)
    /\ lock' = RLock_acquire(lock, p)
    /\ Goto(p, "lk_inner_in", procs[p].rec)
    /\ UNCHANGED <<config, storeVars, observed, last, query, besideLock>>

\* The body of upsert_context, called by add_context.
Lock_InnerBody(p) ==
    /\ At(p, "lk_inner_in")
    /\ \E rec \in {procs[p].rec}, st \in {Store} :
       \E r \in {upsert_context(st, config, rec.context)} :
          /\ SetStore(r.st)
          /\ last' = ContextCall(rec.op, st, rec.context, r)
          /\ Goto(p, "lk_inner_exit", [rec EXCEPT !.err = r.err])
    /\ UNCHANGED <<config, observed, query, besideVars>>

\* upsert_context's with block ends, by return or by RuntimeError.
Lock_InnerExit(p) ==
    /\ At(p, "lk_inner_exit")
    /\ lock' = RLock_release(lock, p)
    /\ Goto(p, "lk_exit", procs[p].rec)
    /\ UNCHANGED <<config, storeVars, observed, last, query, besideLock>>

\* The with block of the operation called ends, by return or by exception.
Lock_Exit(p) ==
    /\ At(p, "lk_exit")
    /\ lock' = RLock_release(lock, p)
    /\ procs' = [procs EXCEPT ![p] = Idle]
    /\ UNCHANGED <<config, storeVars, observed, last, query, besideLock>>

InitRLock ==
    /\ config \in [max_contexts : Caps, max_states_per_context : {None},
                   max_transitions_per_context : {None}]
    /\ StoreIs(EmptyStore)
    /\ procs = [p \in Procs |-> Idle]
    /\ observed = NoObserved
    /\ last = NoCall
    /\ query = NoQuery
    /\ BesideEmptyBut("RLock")
    /\ lock = Unlocked

NextRLock ==
    \/ \E p \in Procs, op \in LockedOps, c \in CtxIds, overwrite \in BOOLEAN :
          Lock_Call(p, op, c, overwrite)
    \/ \E p \in Procs : Lock_Enter(p)
    \/ \E p \in Procs : Lock_Body(p)
    \/ \E p \in Procs : Lock_AddBody(p)
    \/ \E p \in Procs : Lock_InnerEnter(p)
    \/ \E p \in Procs : Lock_InnerBody(p)
    \/ \E p \in Procs : Lock_InnerExit(p)
    \/ \E p \in Procs : Lock_Exit(p)

SpecRLock == InitRLock /\ [][NextRLock]_vars

\* Fair scheduling: a thread that can run does run, and a thread waiting
\* for the lock is not passed over forever while the lock keeps coming free.
FairRLock ==
    \A p \in Procs :
        /\ SF_vars(Lock_Enter(p))
        /\ WF_vars(Lock_Body(p))
        /\ WF_vars(Lock_AddBody(p))
        /\ WF_vars(Lock_InnerEnter(p))
        /\ WF_vars(Lock_InnerBody(p))
        /\ WF_vars(Lock_InnerExit(p))
        /\ WF_vars(Lock_Exit(p))

SpecRLockFair == SpecRLock /\ FairRLock

\* How many with blocks of the store thread p is inside.
LockDepth(p) ==
    IF procs[p].pc \in {"lk_inner_in", "lk_inner_exit"} THEN 2
    ELSE IF procs[p].pc \in {"lk_in", "lk_inner_wait", "lk_exit"} THEN 1
    ELSE 0

\* The lock is held exactly by the thread inside a with block, as often as
\* that thread has entered one.
LockDiscipline ==
    /\ \A p \in Procs : LockDepth(p) > 0 => lock = [count |-> LockDepth(p), owner |-> Some(p)]
    /\ (\A p \in Procs : LockDepth(p) = 0) => lock = Unlocked

\* C32: no operation of the store deadlocks. The lock is held only inside
\* the with blocks, so it is released on every exit path, a raise included;
\* and under fair scheduling every caller waiting for the lock acquires it
\* and every call in progress completes, add_context's nested acquisition
\* included.
NoDeadlock ==
    /\ []LockDiscipline
    /\ \A p \in Procs : At(p, "lk_wait") ~> (lock.owner = Some(p))
    /\ \A p \in Procs : (~At(p, "idle")) ~> At(p, "idle")

\* add_context raised the RuntimeError of upsert_context, two with blocks
\* deep, and after it the other thread is inside the lock.
RaisedAndReleased ==
    \E p, q \in Procs :
        /\ p # q
        /\ At(p, "idle")
        /\ last.op = "add_context"
        /\ last.err = "RuntimeError"
        /\ procs[q].pc = "lk_in"
        /\ lock.owner = Some(q)

\* ------------------------------------------------------------------ C33
\* Two threads call ingest_context(payload, overwrite=False); the payloads
\* name the same context ids with different contents.
RaceApps == {"app", "app2"}

InitIngestRace == InitIngest

NextIngestRace ==
    \E p \in Procs :
        \/ \E shape \in IngestShapes, c \in CtxIds, app \in RaceApps :
              IngestContext_Check(p, ContextPayload(shape, c, app), FALSE)
        \/ IngestContext_Upsert(p)

SpecIngestRace == InitIngestRace /\ [][NextIngestRace]_vars

\* C33: of the ingest_context(overwrite=False) calls that carry one context
\* id, none succeeds once the context is stored: a call that succeeded
\* found no context under its id when it wrote.
IngestContextOnce ==
    (last.op = "ingest_context" /\ last.ok) => ~last.existed

\* A stored context is only ever replaced by itself.
IngestContextKept ==
    [][\A c \in DOMAIN contexts : c \in DOMAIN contexts' /\ contexts'[c] = contexts[c]]_vars

\* -------------------------------------------------------- ExplorationEngine
MaxActions == 2
MaxExploreStates == 3
MaxExploreTransitions == 3
MaxExploreDepth == 1

FrontierItem(state_id, depth) == [depth |-> depth, state_id |-> state_id]

\* The lists driver.list_actions may return: the candidates 1..n.
ActionLists == {[i \in 1..n |-> i] : n \in 0..MaxActions}

\* _make_transition, and beside the Transition what the driver did: the
\* depth of the FrontierItem expanded, the state the driver was in when it
\* performed the action (at), and whether the target was newly tracked.
\* The position in engine_transitions stands for the uuid4 id.
_make_transition(source_state_id, target_state_id, depth, at, is_new) ==
    [depth |-> depth, source_state_id |-> source_state_id,
     target_state_id |-> target_state_id, at |-> at, is_new |-> is_new]

\* Faulty variant of _should_stop: the number of transitions is not looked at.
_should_stop_StatesOnly(cfg, tracked, recorded) ==
    IF IsNone(cfg.max_states) THEN FALSE ELSE tracked >= Val(cfg.max_states)

\* ExplorationEngine._should_stop; tracked is len(self.state_tracker),
\* recorded is len(self.transitions).
_should_stop(cfg, tracked, recorded) ==
    IF ~IsNone(cfg.max_states) /\ tracked >= Val(cfg.max_states) THEN TRUE
    ELSE IF ~IsNone(cfg.max_transitions) /\ recorded >= Val(cfg.max_transitions) THEN TRUE
    ELSE FALSE

ShouldStop == _should_stop(exp_config, Cardinality(DOMAIN states_by_id), Len(engine_transitions))

\* Faulty variant of DepthAllows: a state is explored whatever its depth.
DepthAllows_Always(cfg, next_depth) == TRUE

\* "self.config.max_depth is None or next_depth <= self.config.max_depth"
DepthAllows(cfg, next_depth) ==
    IF IsNone(cfg.max_depth) THEN TRUE ELSE next_depth <= Val(cfg.max_depth)

\* StateTracker.get_tracked
get_tracked(tr, state_id) ==
    IF state_id \in DOMAIN tr.states_by_id THEN Some(tr.states_by_id[state_id]) ELSE None

Pushed(map, state_id) ==
    Put(map, state_id, IF state_id \in DOMAIN map THEN map[state_id] + 1 ELSE 1)

SetTracker(tr) ==
    /\ states_by_id' = tr.states_by_id
    /\ index_by_key' = tr.index_by_key

exploreFrame == <<config, storeVars, procs, observed, last, query, besideExplore,
                  tracker_config, calls, exp_config>>

\* explore up to the while loop: driver.reset() returns one of the states
\* of S, which is observed and pushed at depth 0.
Explore_Reset(S) ==
    /\ explore_pc = "start"
    /\ \E root_state \in S :
       \E r \in {observe_state(Tracker, tracker_config, root_state, 0)} :
          /\ SetTracker(r.tr)
          /\ frontier' = <<FrontierItem(r.state_id, 0)>>
          /\ driver_at' = r.state_id
          /\ pushes' = Pushed(pushes, r.state_id)
    /\ explore_pc' = "while"
    /\ UNCHANGED <<exploreFrame, engine_transitions, item, actions>>

\* "while frontier:" with the frontier empty.
Explore_Finish ==
    /\ explore_pc = "while"
    /\ frontier = << >>
    /\ explore_pc' = "done"
    /\ UNCHANGED <<exploreFrame, trackerVars, engine_transitions, frontier, item, actions,
                   driver_at, pushes>>

\* frontier.pop() and the break on _should_stop.
Explore_Stop ==
    /\ explore_pc = "while"
    /\ frontier # << >>
    /\ ShouldStop
    /\ item' = Some(frontier[Len(frontier)])
    /\ frontier' = SubSeq(frontier, 1, Len(frontier) - 1)
    /\ explore_pc' = "done"
    /\ UNCHANGED <<exploreFrame, trackerVars, engine_transitions, actions, driver_at, pushes>>

\* frontier.pop(), get_tracked and driver.list_actions(current_state).
Explore_Pop ==
    /\ explore_pc = "while"
    /\ frontier # << >>
    /\ ~ShouldStop
    /\ item' = Some(frontier[Len(frontier)])
    /\ frontier' = SubSeq(frontier, 1, Len(frontier) - 1)
    /\ IF IsNone(get_tracked(Tracker, frontier[Len(frontier)].state_id))
       THEN /\ explore_pc' = "while"
            /\ actions' = actions
       ELSE /\ explore_pc' = "for"
            /\ actions' \in ActionLists
    /\ UNCHANGED <<exploreFrame, trackerVars, engine_transitions, driver_at, pushes>>

\* "for cand in actions:" with no candidate left.
Explore_ForEnd ==
    /\ explore_pc = "for"
    /\ actions = << >>
    /\ explore_pc' = "while"
    /\ UNCHANGED <<exploreFrame, trackerVars, engine_transitions, frontier, item, actions,
                   driver_at, pushes>>

\* The break of the for loop on _should_stop.
Explore_Break ==
    /\ explore_pc = "for"
    /\ actions # << >>
    /\ ShouldStop
    /\ explore_pc' = "while"
    /\ UNCHANGED <<exploreFrame, trackerVars, engine_transitions, frontier, item, actions,
                   driver_at, pushes>>

\* perform_action or capture_state raises: the candidate is skipped when
\* skip_on_error is set, and the exception leaves explore otherwise.
Explore_Error ==
    /\ explore_pc = "for"
    /\ actions # << >>
    /\ ~ShouldStop
    /\ IF exp_config.skip_on_error
       THEN /\ actions' = Tail(actions)
            /\ explore_pc' = "for"
       ELSE /\ actions' = actions
            /\ explore_pc' = "raised"
    /\ UNCHANGED <<exploreFrame, trackerVars, engine_transitions, frontier, item,
                   driver_at, pushes>>

\* perform_action and capture_state return one of the states of S: it is
\* observed, the transition is recorded, and a new state within max_depth
\* is pushed.
Explore_Act(S) ==
    /\ explore_pc = "for"
    /\ actions # << >>
    /\ ~ShouldStop
    /\ \E new_state \in S, it \in {Val(item)} :
       \E current_state \in {states_by_id[it.state_id].state} :
       \E r \in {observe_state(Tracker, tracker_config, new_state, 0)} :
          /\ SetTracker(r.tr)
          /\ engine_transitions' =
                Append(engine_transitions,
                       _make_transition(current_state.id, r.state_id, it.depth,
                                        driver_at, r.is_new))
          /\ driver_at' = r.state_id
          /\ IF r.is_new /\ DepthAllows(exp_config, it.depth + 1)
             THEN /\ frontier' = Append(frontier, FrontierItem(r.state_id, it.depth + 1))
                  /\ pushes' = Pushed(pushes, r.state_id)
             ELSE /\ frontier' = frontier
                  /\ pushes' = pushes
    /\ actions' = Tail(actions)
    /\ explore_pc' = "for"
    /\ UNCHANGED <<exploreFrame, item>>

\* The screens of the application explored: each has its id and its
\* structural fingerprint.
Screens ==
    {UIState("g1", [structural |-> "h1", visual |-> ""]),
     UIState("g2", [structural |-> "h2", visual |-> ""]),
     UIState("g3", [structural |-> "h3", visual |-> ""])}

\* ExplorationEngine(driver=driver, config=config): a new tracker with the
\* default configuration, and limits as the configuration gives them.
InitExplore ==
    /\ config = Unlimited
    /\ StoreIs(EmptyStore)
    /\ procs = << >>
    /\ observed = NoObserved
    /\ last = NoCall
    /\ query = NoQuery
    /\ BesideEmptyBut("ExplorationEngine")
    /\ tracker_config = DefaultTrackerConfig
    /\ states_by_id = EmptyMap
    /\ index_by_key = EmptyMap
    /\ calls = << >>
    /\ exp_config \in [max_depth : {None} \cup {Some(d) : d \in 0..MaxExploreDepth},
                       max_states : {Some(n) : n \in 1..MaxExploreStates},
                       max_transitions : {Some(n) : n \in 0..MaxExploreTransitions},
                       skip_on_error : BOOLEAN]
    /\ engine_transitions = << >>
    /\ explore_pc = "start"
    /\ frontier = << >>
    /\ item = None
    /\ actions = << >>
    /\ driver_at = ""
    /\ pushes = EmptyMap

NextExplore ==
    \/ Explore_Reset(Screens)
    \/ Explore_Finish
    \/ Explore_Stop
    \/ Explore_Pop
    \/ Explore_ForEnd
    \/ Explore_Break
    \/ Explore_Error
    \/ Explore_Act(Screens)

SpecExplore == InitExplore /\ [][NextExplore]_vars

\* ------------------------------------------------------------------ C34
\* C34: explore, started with an empty tracker, max_states >= 1 and
\* max_transitions >= 0, never holds more recorded transitions than
\* max_transitions nor more tracked states than max_states, whatever the
\* driver returns or raises.
WithinExploreLimits ==
    /\ Len(engine_transitions) <= Val(exp_config.max_transitions)
    /\ Cardinality(DOMAIN states_by_id) <= Val(exp_config.max_states)

\* explore has returned with both limits reached exactly, two states
\* beyond the root among them.
WithinExploreLimits_Witness ==
    /\ explore_pc = "done"
    /\ Len(engine_transitions) = Val(exp_config.max_transitions)
    /\ Cardinality(DOMAIN states_by_id) = Val(exp_config.max_states)
    /\ Val(exp_config.max_states) >= 3

\* ------------------------------------------------------------------ C35
\* C35: with max_depth = D every recorded transition leaves a state of
\* depth < D (the root has depth 0), and every state tracked has depth <= D:
\* a newly tracked target lies one deeper than its source.
WithinMaxDepth ==
    ~IsNone(exp_config.max_depth) =>
        \A i \in 1..Len(engine_transitions) :
            /\ engine_transitions[i].depth < Val(exp_config.max_depth)
            /\ engine_transitions[i].is_new =>
                  engine_transitions[i].depth + 1 <= Val(exp_config.max_depth)

\* What the loop does keep to: the states expanded have depth <= D, so the
\* states tracked have depth <= D + 1.
WithinMaxDepthPlusOne ==
    ~IsNone(exp_config.max_depth) =>
        \A i \in 1..Len(engine_transitions) :
            engine_transitions[i].depth <= Val(exp_config.max_depth)

\* ------------------------------------------------------------------ C36
\* C36: every recorded transition is an edge that was observed: when its
\* action was performed the driver was in the state recorded as its
\* source, and the driver is in the target right after the action.
RecordedAsObserved ==
    /\ \A i \in 1..Len(engine_transitions) :
          engine_transitions[i].source_state_id = engine_transitions[i].at
    /\ engine_transitions # << >> /\ explore_pc = "for" =>
          engine_transitions[Len(engine_transitions)].target_state_id = driver_at

\* The target alone is recorded as observed.
RecordedTarget ==
    \A i \in 1..Len(engine_transitions) :
        IF i < Len(engine_transitions)
        THEN engine_transitions[i].target_state_id = engine_transitions[i + 1].at
        ELSE engine_transitions[i].target_state_id = driver_at

\* ------------------------------------------------------------------ C37
MaxRecorded == 4

\* What a driver may capture beside the screens g1 and g2: a state that
\* carries the id g1 with another fingerprint, and a state without any
\* fingerprint.
FreeScreens ==
    {UIState("g1", [structural |-> "h1", visual |-> ""]),
     UIState("g2", [structural |-> "h2", visual |-> ""]),
     UIState("g1", [structural |-> "h3", visual |-> ""]),
     UIState("g3", EmptyMap)}

\* An engine without limits, its tracker configured with or without the
\* fallback to ids.
InitExploreFree ==
    /\ config = Unlimited
    /\ StoreIs(EmptyStore)
    /\ procs = << >>
    /\ observed = NoObserved
    /\ last = NoCall
    /\ query = NoQuery
    /\ BesideEmptyBut("ExplorationEngine")
    /\ tracker_config \in [prefer_fingerprint_keys : {<<"structural", "visual", "semantic">>},
                           allow_id_fallback : BOOLEAN, auto_generate_ids : {TRUE}]
    /\ states_by_id = EmptyMap
    /\ index_by_key = EmptyMap
    /\ calls = << >>
    /\ exp_config \in [max_depth : {None}, max_states : {None}, max_transitions : {None},
                       skip_on_error : BOOLEAN]
    /\ engine_transitions = << >>
    /\ explore_pc = "start"
    /\ frontier = << >>
    /\ item = None
    /\ actions = << >>
    /\ driver_at = ""
    /\ pushes = EmptyMap

\* The run is followed up to MaxRecorded transitions; without limits
\* _should_stop is never true.
NextExploreFree ==
    \/ Explore_Reset(FreeScreens)
    \/ Explore_Finish
    \/ Explore_Pop
    \/ Explore_ForEnd
    \/ Explore_Error
    \/ Len(engine_transitions) < MaxRecorded /\ Explore_Act(FreeScreens)

SpecExploreFree == InitExploreFree /\ [][NextExploreFree]_vars

\* C37: without limits explore still comes to an end, because every tracked
\* state is pushed on the frontier, and so has its actions enumerated, at
\* most once.
PushedOnce == \A id \in DOMAIN pushes : pushes[id] <= 1

\* A state without a dedup key is new at every observation: it has been
\* pushed as often as the driver came back to it.
PushedAgain ==
    /\ ~tracker_config.allow_id_fallback
    /\ "g3" \in DOMAIN pushes
    /\ pushes["g3"] = MaxRecorded + 1
    /\ DOMAIN states_by_id = {"g3"}

\* ------------------------------------------------------------------ C38
\* The calls that returned is_new = true.
NewCalls == {i \in 1..Len(calls) : calls[i].is_new}

\* C38: every call that returns is_new = true adds exactly one tracked
\* state; every id in the dedup index and every id returned is tracked
\* under a TrackedState whose state carries that id; and the number of
\* tracked states is the number of calls that returned is_new = true.
NewIsOneMore ==
    /\ \A i \in NewCalls : calls[i].tracked = TrackedBefore(i) + 1
    /\ \A key \in DOMAIN index_by_key :
          LET tracked == get_tracked(Tracker, index_by_key[key])
          IN  ~IsNone(tracked) /\ Val(tracked).state.id = index_by_key[key]
    /\ \A i \in 1..Len(calls) :
          LET tracked == get_tracked(Tracker, calls[i].state_id)
          IN  ~IsNone(tracked) /\ Val(tracked).state.id = calls[i].state_id
    /\ Cardinality(DOMAIN states_by_id) = Cardinality(NewCalls)

\* The ids alone are as stated: each resolves to a state that carries it.
IdsResolve ==
    /\ \A key \in DOMAIN index_by_key :
          LET tracked == get_tracked(Tracker, index_by_key[key])
          IN  ~IsNone(tracked) /\ Val(tracked).state.id = index_by_key[key]
    /\ \A i \in 1..Len(calls) :
          LET tracked == get_tracked(Tracker, calls[i].state_id)
          IN  ~IsNone(tracked) /\ Val(tracked).state.id = calls[i].state_id

\* ----------------------------------------------------------- GuidanceEngine
MaxPathLen == 2
MaxAdvances == 4

GuidanceGoal(goal_type, target_state_id) ==
    [target_state_id |-> target_state_id, goal_type |-> goal_type]

\* A GuidanceStep as far as the sessions read it.
GuidanceStep(kind, step_index, step_count) ==
    [kind |-> kind, step_index |-> step_index, step_count |-> step_count]

GuidancePlan(context_id, goal, source_state_id, target_state_id, status, steps, path_view) ==
    [context_id |-> context_id, source_state_id |-> source_state_id,
     target_state_id |-> target_state_id, status |-> status, goal |-> goal,
     steps |-> steps, path_view |-> path_view]

GuidanceSessionState(context_id, plan, current_step_index, current_state, status) ==
    [context_id |-> context_id, status |-> status, plan |-> plan,
     current_step_index |-> current_step_index, current_state |-> current_state]

\* What client.shortest_path may return: None, or a PathView whose
\* transitions are numbered 1..n.
PathViews == {None} \cup {Some([i \in 1..n |-> i]) : n \in 0..MaxPathLen}

\* GuidanceEngine._build_path_steps: the plan's status, path_view and steps.
_build_path_steps(source_state_id, target_state_id, path_view) ==
    IF source_state_id = target_state_id
    THEN [status |-> "ready", steps |-> <<GuidanceStep("complete", 0, 1)>>, path_view |-> None]
    ELSE IF IsNone(path_view) \/ Val(path_view) = << >>
    THEN [status |-> "failed", steps |-> <<GuidanceStep("error", 0, 1)>>,
          path_view |-> path_view]
    ELSE [status |-> "ready",
          steps |-> [i \in 1..Len(Val(path_view)) |->
                        GuidanceStep("action", i - 1, Len(Val(path_view)))],
          path_view |-> path_view]

\* GuidanceEngine.build_plan. ctx is what client.get_context returned, match
\* the id of the state resolve_current_state matched, path_view what
\* client.shortest_path returns when asked.
build_plan(context_id, ctx, match, goal, path_view) ==
    IF IsNone(ctx) THEN [ok |-> FALSE, err |-> "GuidanceEngineError", plan |-> None]
    ELSE IF IsNone(match)
    THEN [ok |-> TRUE, err |-> "",
          plan |-> Some(GuidancePlan(context_id, goal, "", "", "failed",
                                     <<GuidanceStep("error", 0, 1)>>, None))]
    ELSE IF goal.goal_type = "target_state"
    THEN IF goal.target_state_id = ""
         THEN [ok |-> FALSE, err |-> "GuidanceEngineError", plan |-> None]
         ELSE LET built == _build_path_steps(Val(match), goal.target_state_id, path_view)
              IN  [ok |-> TRUE, err |-> "",
                   plan |-> Some(GuidancePlan(context_id, goal, Val(match),
                                              goal.target_state_id, built.status,
                                              built.steps, built.path_view))]
    ELSE [ok |-> TRUE, err |-> "",
          plan |-> Some(GuidancePlan(context_id, goal, Val(match), Val(match), "partial",
                                     <<GuidanceStep("info", 0, 1)>>, None))]

\* Faulty variant of NoMoreSteps: one index too many is let through.
NoMoreSteps_OffByOne(next_index, steps) == next_index > Len(steps)

\* "next_index >= len(session.plan.steps)"
NoMoreSteps(next_index, steps) == next_index >= Len(steps)

\* GuidanceSessionState.is_finished
is_finished(s) == s.status \in {"completed", "failed", "cancelled"}

\* The status and the index start_session gives the session.
SessionStart(match, plan) ==
    IF IsNone(match) THEN [status |-> "failed", current_step_index |-> -1]
    ELSE IF plan.status = "ready" /\ plan.steps # << >>
    THEN [status |-> "running", current_step_index |-> 0]
    ELSE IF plan.status = "ready"
    THEN [status |-> "completed", current_step_index |-> -1]
    ELSE IF plan.status = "failed"
    THEN [status |-> "failed",
          current_step_index |-> IF plan.steps # << >> THEN 0 ELSE -1]
    ELSE [status |-> "running",
          current_step_index |-> IF plan.steps # << >> THEN 0 ELSE -1]

\* GuidanceEngine.start_session, given the plan build_plan returned.
start_session(context_id, match, plan) ==
    LET start == SessionStart(match, plan)
    IN  GuidanceSessionState(context_id, plan, start.current_step_index, match, start.status)

\* GuidanceEngine.advance_session
advance_session(s) ==
    IF is_finished(s) THEN s
    ELSE IF NoMoreSteps(s.current_step_index + 1, s.plan.steps)
    THEN [s EXCEPT !.status = "completed"]
    ELSE [s EXCEPT !.current_step_index = @ + 1]

guidanceFrame == <<config, storeVars, procs, observed, last, query, besideGuidance>>

\* A caller of start_session; a GuidanceEngineError leaves it without a session.
StartSession(context_id, ctx, match, goal, path_view) ==
    /\ IsNone(session)
    /\ \E built \in {build_plan(context_id, ctx, match, goal, path_view)} :
          IF built.ok
          THEN session' = Some(start_session(context_id, match, Val(built.plan)))
          ELSE session' = session
    /\ UNCHANGED <<guidanceFrame, advanced>>

\* A caller of advance_session, who keeps the session returned.
AdvanceSession ==
    /\ ~IsNone(session)
    /\ advanced < MaxAdvances
    /\ session' = Some(advance_session(Val(session)))
    /\ advanced' = advanced + 1
    /\ UNCHANGED guidanceFrame

GuidanceGoals ==
    {GuidanceGoal(goal_type, target) :
        goal_type \in {"target_state", "intent", "workflow"}, target \in {"", "A", "B"}}

InitGuidance ==
    /\ config = Unlimited
    /\ StoreIs(EmptyStore)
    /\ procs = << >>
    /\ observed = NoObserved
    /\ last = NoCall
    /\ query = NoQuery
    /\ BesideEmptyBut("GuidanceEngine")
    /\ session = None
    /\ advanced = 0

NextGuidance ==
    \/ \E context_id \in CtxIds, ctx \in {None, Some("app")}, match \in {None, Some("A"), Some("B")},
          goal \in GuidanceGoals, path_view \in PathViews :
          StartSession(context_id, ctx, match, goal, path_view)
    \/ AdvanceSession

SpecGuidance == InitGuidance /\ [][NextGuidance]_vars

\* ------------------------------------------------------------------ C39
\* A step the user can act on.
Actionable(steps) == \E i \in 1..Len(steps) : steps[i].kind = "action"

\* C39: the session start_session returns is RUNNING at step 0 only when
\* its plan is READY and has actionable steps; for every other plan it is
\* COMPLETED or FAILED from the start.
StartsRunningOnlyWhenReady ==
    (~IsNone(session) /\ advanced = 0) =>
        LET s == Val(session)
        IN  IF s.plan.status = "ready" /\ Actionable(s.plan.steps)
            THEN s.status = "running" /\ s.current_step_index = 0
            ELSE s.status \in {"completed", "failed"}

\* What does hold: a FAILED plan gives a FAILED session, and a plan with
\* actions a session RUNNING at step 0.
StartsAsThePlanIs ==
    (~IsNone(session) /\ advanced = 0) =>
        LET s == Val(session)
        IN  /\ s.plan.status = "failed" => s.status = "failed"
            /\ s.plan.status = "ready" /\ Actionable(s.plan.steps) =>
                  s.status = "running" /\ s.current_step_index = 0

\* ------------------------------------------------------------------ C40
\* The session stays within its plan: the index is -1 or that of a step,
\* and a session still RUNNING has been advanced less often than its plan
\* has steps.
SessionWithinPlan ==
    ~IsNone(session) =>
        LET s == Val(session)
        IN  /\ s.current_step_index \in -1..(Len(s.plan.steps) - 1)
            /\ s.status = "running" => advanced < Len(s.plan.steps)

\* One advance_session call: a finished session is returned as it is; one
\* with a next step moves to it and keeps its status; one without becomes
\* COMPLETED where it stands.
AdvanceAsStated ==
    (~IsNone(session) /\ advanced' = advanced + 1) =>
        LET s == Val(session)
            t == Val(session')
        IN  /\ t.plan = s.plan
            /\ t.current_step_index >= s.current_step_index
            /\ IF s.status \in {"completed", "failed", "cancelled"} THEN t = s
               ELSE IF s.current_step_index + 1 < Len(s.plan.steps)
               THEN /\ t.current_step_index = s.current_step_index + 1
                    /\ t.status = s.status
               ELSE /\ t.current_step_index = s.current_step_index
                    /\ t.status = "completed"

\* C40: advance_session returns a finished session unchanged, and otherwise
\* moves the index on by one while a next step exists and else sets
\* COMPLETED without moving it; the index stays within -1..len(steps)-1 and
\* never decreases, and a RUNNING session is COMPLETED after at most
\* len(plan.steps) advances.
AdvancesToCompletion == []SessionWithinPlan /\ [][AdvanceAsStated]_vars

\* A session over a path of MaxPathLen transitions has been advanced as
\* often and is COMPLETED at its last step.
AdvancesToCompletion_Witness ==
    /\ ~IsNone(session)
    /\ advanced = MaxPathLen
    /\ Len(Val(session).plan.steps) = MaxPathLen
    /\ Val(session).status = "completed"
    /\ Val(session).current_step_index = MaxPathLen - 1

====
